---- MODULE Spec2Model ----
(***************************************************************************)
(* The RPC client/session layer of aslan-browser: the synchronous client   *)
(* (AslanBrowser, client.py) and the asynchronous background-reader client *)
(* (AsyncAslanBrowser, async_client.py), talking line-delimited JSON-RPC   *)
(* to a server over one Unix-socket stream.                                *)
(*                                                                         *)
(* One client instance is modelled.  `kind` says which class it is.  The   *)
(* synchronous client is driven by one thread (task "A"); the asynchronous *)
(* client by two asyncio tasks ("A", "B") plus its reader task.  An action *)
(* is one run of a task from one suspension point to the next.             *)
(*                                                                         *)
(* Tab ids "tabN" and session ids are represented by the number N;         *)
(* 0 stands for None / an absent JSON field.                               *)
(***************************************************************************)
EXTENDS Integers, Sequences, FiniteSets, TLC

\* ---- bounds -------------------------------------------------------------
MaxId == 3        \* requests one instance may send in a run
MaxEvents == 1    \* notifications that may be queued on the stream at a time
MaxBatch == 2     \* entries of the list given to batch() or to a parallel_*()

\* ---- program constants --------------------------------------------------
RETRY_DELAYS == <<1, 5, 10>>   \* _RETRY_DELAYS, in tenths of a second
None == "None"
NoSession == 0
Tasks == {"A", "B"}
Ids == 1..MaxId

ErrorEnvelopes ==
  { [code |-> -32601, message |-> "Method not found"],
    [code |-> -32000, message |-> "Tab not found"],
    [code |-> -32004, message |-> "Session not found"] }

NotConnectedMsg == "Not connected. Call connect() first."
ConnLostMsg     == "Connection lost."
ConnClosedMsg   == "Connection closed."
SyncEofMsg      == "Connection closed by aslan-browser."
WriteFailedMsg  == "Connection lost"
SyncPipeMsg     == "[Errno 32] Broken pipe"
JsonErrorMsg    == "Expecting value: line 1 column 1 (char 0)"
SyncResetMsg    == "[Errno 104] Connection reset by peer"
FailMissingMsg  ==
  "Failed to connect to aslan-browser after 3 attempts: aslan-browser is not running. Socket not found at <socket_path>"
FailRefusedMsg  ==
  "Failed to connect to aslan-browser after 3 attempts: [Errno 111] Connection refused"

VARIABLES
  kind,          \* "sync": AslanBrowser, "async": AsyncAslanBrowser
  auto_session,  \* self._auto_session
  next_id,       \* self._next_id
  session_id,    \* self._session_id (0 = None)
  owned_tabs,    \* self._owned_tabs (a list)
  sock, file,    \* self._sock, self._file             (sync client)
  reader, writer,\* self._reader, self._writer         (async client)
  read_task,     \* self._read_task: None, running, cancelling, done
  pending,       \* keys of self._pending
  fut,           \* the future created for each request id
  task,          \* position of each caller inside the client's methods
  ret,           \* what the operation that finished last returned/raised, by caller
  link,          \* the connection: none, open, half, closed, reset, shut
  inbox,         \* lines the server wrote that the client has not read yet
  wire,          \* ids of the request lines the client wrote, oldest first
  todo,          \* request lines the server has received and not answered
  tabs,          \* the tabs open on the server, each with its session tag
  on_event,      \* self._on_event is set (async client)
  hin,           \* the arguments of a batch() / parallel_*() call and what the
                 \* server holds when it arrives
  hout,          \* what that call returned
  cli,           \* one run of the command line's _run(func, args)
  conns          \* every transport and reader task made by overlapping connect()s

client == <<auto_session, next_id, session_id, owned_tabs, sock, file,
            reader, writer, read_task, pending, fut>>
env    == <<link, inbox, wire, todo, tabs>>
vars   == <<kind, auto_session, next_id, session_id, owned_tabs, sock, file,
            reader, writer, read_task, pending, fut, task, ret,
            link, inbox, wire, todo, tabs, on_event, hin, hout, cli, conns>>
\* what the operations of the connection leave alone
fixed  == <<kind, on_event, hin, hout, cli, conns>>

\* ---- wire records -------------------------------------------------------
\* An inbound line.  t: "result" | "error" | "event"; id = 0: no id field.
\* val: the tabId / sessionId of the result; closed: its closedTabs.
NoLine           == [t |-> "none", id |-> 0, code |-> 0, message |-> "", val |-> 0, closed |-> {}]
ResultLine(i, v) == [NoLine EXCEPT !.t = "result", !.id = i, !.val = v]
ErrorLine(i, e)  == [NoLine EXCEPT !.t = "error", !.id = i, !.code = e.code, !.message = e.message]
EventLine        == [NoLine EXCEPT !.t = "event"]
ClosedLine(i, c) == [NoLine EXCEPT !.t = "result", !.id = i, !.closed = c]
\* lines a well-behaved server does not write: one that is not JSON; a JSON
\* object with neither "id" nor "method"; one with both
MalformedLine    == [NoLine EXCEPT !.t = "malformed"]
BareLine         == [NoLine EXCEPT !.t = "bare"]
RequestLine(i)   == [NoLine EXCEPT !.t = "request", !.id = i]
\* json.loads(line) succeeds; "id" in msg; "method" in msg
IsJson(l) == l.t # "malformed"
HasId(l) == l.id # 0
HasMethod(l) == l.t \in {"event", "request"}

\* A request line: sid is params["sessionId"], tab is params["tabId"],
\* requests is params["requests"] (0 / <<>>: the member is absent).
Request(i, m, s) == [id |-> i, method |-> m, sid |-> s, tab |-> 0, requests |-> <<>>]
TabRequest(i, m, x) == [Request(i, m, 0) EXCEPT !.tab = x]
BatchRequest(i, b) == [Request(i, "batch", 0) EXCEPT !.requests = b]
\* an entry of the list given to batch()
SubRequest(m, x) == [method |-> m, tab |-> x]

\* A future: st is "none" (no such future), "waiting", "result",
\* "lost" (ConnectionError("Connection lost.")), "closed"
\* (ConnectionError("Connection closed.")).
FutNone      == [st |-> "none", msg |-> NoLine]
FutWaiting   == [st |-> "waiting", msg |-> NoLine]
FutResult(l) == [st |-> "result", msg |-> l]
FutExc(k)    == [st |-> k, msg |-> NoLine]

\* ---- callers ------------------------------------------------------------
\* arg: the tab_id argument of tab_close
Idle == [op |-> "idle", pc |-> "-", req |-> 0, n |-> 0, err |-> "", arg |-> 0]
At(o, p, r) == [Idle EXCEPT !.op = o, !.pc = p, !.req = r]

\* How an operation ended.  op: the method; kind: "none" (not ended), "ok"
\* (returned None), "result", or the exception class; req: the id _call sent;
\* rid: the id of the response _call took.
NoRet == [op |-> "", kind |-> "none", code |-> 0, msg |-> "", val |-> 0, closed |-> {},
          req |-> 0, rid |-> 0]
Returned == [NoRet EXCEPT !.kind = "ok"]
ReturnedEarly == [Returned EXCEPT !.msg = "already connected"]
Exc(k, m, r) == [NoRet EXCEPT !.kind = k, !.msg = m, !.req = r]
Ret(o, r) == [r EXCEPT !.op = o]
\* `ret` keeps the outcome of the operation that finished last
NoRets == [u \in Tasks |-> NoRet]

\* self._next_id += 1; req_id = self._next_id
NextIdReused(n) == IF n = 2 THEN 2 ELSE n + 1
NextId(n) == n + 1

\* _call's tail: raise AslanBrowserError(err["code"], err["message"]) when
\* the response has an "error" member, else return response.get("result").
ReplySwallowed(r, l) ==
  [NoRet EXCEPT !.kind = "result", !.val = l.val, !.closed = l.closed, !.req = r, !.rid = l.id]
Reply(r, l) ==
  IF l.t = "error"
  THEN [NoRet EXCEPT !.kind = "AslanBrowserError", !.code = l.code, !.msg = l.message,
                     !.req = r, !.rid = l.id]
  ELSE [NoRet EXCEPT !.kind = "result", !.val = l.val, !.closed = l.closed,
                     !.req = r, !.rid = l.id]

\* The final ConnectionError of connect(): the text ends with str(last_err).
ConnectFailure(err) ==
  Exc("ConnectionError", IF err = "missing" THEN FailMissingMsg ELSE FailRefusedMsg, 0)

\* writing to the transport succeeds (peer still reads) or fails
Writable == link \in {"open", "half"}

\* a session the caller made with session_create() before the run: the
\* session_id argument it may pass to tab_create and session_destroy
OtherSession == MaxId + 1

\* tab_create: effective_session = session_id or self._session_id
EffectiveSessionOwnFirst(s) == IF session_id # NoSession THEN session_id ELSE s
EffectiveSession(s) == IF s # NoSession THEN s ELSE session_id

\* connect(): if self._auto_session and self._session_id is None
WantsSessionAlways == TRUE
WantsSession == auto_session /\ session_id = NoSession

\* connect(): session.create returned o (self._session_id = sessionId), or
\* raised o (except Exception: self._auto_session = False)
AutoSessionKept(o) == auto_session
AutoSessionAfter(o) == IF o.kind = "result" THEN auto_session ELSE FALSE
SessionAfter(o) == IF o.kind = "result" THEN o.val ELSE session_id

\* close(): if self._session_id and self._auto_session
HoldsAutoSessionNever == FALSE
HoldsAutoSession == session_id # NoSession /\ auto_session

\* self._owned_tabs.remove(x), ValueError passed over: the first x goes
ListRemovePop(l, x) == IF l = <<>> THEN l ELSE SubSeq(l, 1, Len(l) - 1)
ListRemove(l, x) ==
  IF \E k \in DOMAIN l : l[k] = x
  THEN LET k == CHOOSE k \in DOMAIN l : l[k] = x /\ \A j \in 1..(k - 1) : l[j] # x
       IN SubSeq(l, 1, k - 1) \o SubSeq(l, k + 1, Len(l))
  ELSE l

\* session_destroy: closed = result.get("closedTabs", []), of _call's outcome o
ClosedTabsOwned(o) == o.closed \cap {owned_tabs[k] : k \in DOMAIN owned_tabs}
ClosedTabs(o) == o.closed

\* session_destroy: for tab_id in closed: remove it from self._owned_tabs
RECURSIVE RemoveClosed(_, _)
RemoveClosed(l, c) ==
  IF c = {} THEN l
  ELSE LET x == CHOOSE x \in c : TRUE IN RemoveClosed(ListRemove(l, x), c \ {x})

\* the tab ids a list holds
Range(l) == {l[k] : k \in DOMAIN l}

\* ---- batch() and the parallel_*() helpers: arguments and outcome ----------
\* helper: the method called; ids: its tab_ids (the keys of urls, in order);
\* reqs: the list given to batch(); open: the tabs the server has
NoIn == [helper |-> "none", ids |-> <<>>, reqs |-> <<>>, open |-> {}]
\* ---- the command line ------------------------------------------------------
\* tab: args.tab ("": no --tab given); state: the "tab" of the state file;
\* first, second: how func(args) ends when run the first and the second
\* time; pc: where _run is; ran: the tab each run of func resolved as its
\* target; exit: the code _run returned (-1: none); raised: the exception
\* that left _run ("": none)
NoCli == [tab |-> "", state |-> "tab0", first |-> <<>>, second |-> <<>>, pc |-> "-",
          ran |-> <<>>, exit |-> -1, raised |-> ""]

\* ---- overlapping connect()s ----------------------------------------------
\* Transports and reader tasks are numbered in the order they were made.
\* ref: the transport self._reader and self._writer refer to; task: the
\* reader task self._read_task refers to (0: None); stream[c]: the lines
\* unread on transport c; got[c]: the ids of the session.create requests the
\* server has on c and has not answered; rd[k]: where reader task k is;
\* sessions: the sessions the server made, each with its transport
NoConns == [ref |-> 0, task |-> 0, stream |-> <<>>, got |-> <<>>, rd |-> <<>>, sessions |-> {}]

\* list: what batch() returned; map: what a parallel_*() returned
NoOut == [done |-> FALSE, list |-> <<>>, map |-> <<>>]

Init ==
  /\ kind \in {"sync", "async"}
  /\ auto_session \in BOOLEAN
  /\ next_id = 0
  /\ session_id = NoSession
  /\ owned_tabs = <<>>
  /\ sock = None /\ file = None
  /\ reader = None /\ writer = None
  /\ read_task = None
  /\ pending = {}
  /\ fut = [i \in Ids |-> FutNone]
  /\ task = [t \in Tasks |-> Idle]
  /\ ret = [t \in Tasks |-> NoRet]
  /\ link = "none"
  /\ inbox = <<>>
  /\ wire = <<>>
  /\ todo = {}
  /\ tabs = {}
  /\ on_event = FALSE
  /\ hin = NoIn
  /\ hout = NoOut
  /\ cli = NoCli
  /\ conns = NoConns


\* ======================= the server and the socket =======================
\* The server itself is outside the repository: it is the environment.  It
\* answers a received request with a result or with any error envelope, in
\* any order, emits notifications, and may end or reset the stream.
\* somebody reads the stream: the calling thread of the synchronous client
\* whenever it calls, the reader task of the asynchronous one while it runs
Listening == kind = "sync" \/ read_task \in {"running", "sink"}

ServerVal(q) == IF q.method \in {"tab.create", "session.create"} THEN q.id ELSE 0

\* the ids of the open tabs; tab0, the window's first tab, is not tracked
ServerOpen == {x.id : x \in tabs}

\* tab.close succeeds on an open tab only
ServerCan(q) == q.method = "tab.close" => (q.tab = 0 \/ q.tab \in ServerOpen)

\* the tabs a request closes when it succeeds: the one named by tab.close,
\* those of the session of session.destroy, those a batch's items close
ServerClosed(q) ==
  CASE q.method = "tab.close" -> {q.tab} \cap ServerOpen
    [] q.method = "session.destroy" -> {x.id : x \in {y \in tabs : y.sid = q.sid}}
    [] q.method = "batch" ->
         {q.requests[k].tab : k \in {j \in DOMAIN q.requests : q.requests[j].method = "tab.close"}}
           \cap ServerOpen
    [] OTHER -> {}

\* the tab a successful tab.create opens, tagged with the request's sessionId
ServerOpened(q) == IF q.method = "tab.create" THEN {[id |-> q.id, sid |-> q.sid]} ELSE {}

\* the error a request is rejected with: unknown tab, unknown session, or
\* a method the server does not know (an older server: session.create)
ServerError(q) ==
  CASE q.method = "tab.close" -> [code |-> -32000, message |-> "Tab not found"]
    [] q.method = "session.destroy" \/ (q.method = "tab.create" /\ q.sid # 0) ->
         [code |-> -32004, message |-> "Session not found"]
    [] OTHER -> [code |-> -32601, message |-> "Method not found"]

ServerResult(q) ==
  IF q.method = "session.destroy" THEN ClosedLine(q.id, ServerClosed(q))
  ELSE ResultLine(q.id, ServerVal(q))

ServerRespond ==
  /\ link = "open" /\ Listening
  /\ \E q \in todo :
       /\ \/ /\ ServerCan(q)
             /\ inbox' = Append(inbox, ServerResult(q))
             /\ tabs' = {x \in tabs : x.id \notin ServerClosed(q)} \cup ServerOpened(q)
          \/ /\ inbox' = Append(inbox, ErrorLine(q.id, ServerError(q)))
             /\ tabs' = tabs
       /\ todo' = todo \ {q}
  /\ UNCHANGED <<fixed, client, task, ret, link, wire>>

ServerNotify ==
  /\ link = "open" /\ Listening
  /\ Cardinality({k \in DOMAIN inbox : inbox[k].t = "event"}) < MaxEvents
  /\ inbox' = Append(inbox, EventLine)
  /\ UNCHANGED <<fixed, tabs, client, task, ret, link, wire, todo>>

\* A server that breaks the protocol: it writes a line that is not JSON, an
\* object without id and method, or a line carrying the latest id it no longer
\* owes an answer to (a second response, or a request of its own).
StrayIds ==
  LET settled == {i \in 1..next_id : \A q \in todo : q.id # i}
  IN {i \in settled : \A j \in settled : j <= i}
ServerStray ==
  /\ link = "open" /\ Listening
  /\ Len(inbox) < MaxEvents
  /\ \E l \in {MalformedLine, BareLine} \cup {RequestLine(i) : i \in StrayIds}
                \cup {ResultLine(i, 0) : i \in StrayIds} :
       inbox' = Append(inbox, l)
  /\ UNCHANGED <<fixed, tabs, client, task, ret, link, wire, todo>>

\* the server shuts down its sending side: end-of-stream follows the lines
\* already written; the client's writes are still accepted
ServerShutdown ==
  /\ link = "open"
  /\ link' = "half"
  /\ UNCHANGED <<fixed, tabs, client, task, ret, inbox, wire, todo>>

\* the server closes the socket: end-of-stream, and writes fail
ServerClose ==
  /\ link \in {"open", "half"}
  /\ link' = "closed"
  /\ todo' = {}
  /\ UNCHANGED <<fixed, tabs, client, task, ret, inbox, wire>>

\* the connection is reset: the next read raises, and writes fail
ConnReset ==
  /\ link \in {"open", "half"}
  /\ link' = "reset"
  /\ inbox' = <<>>
  /\ todo' = {}
  /\ UNCHANGED <<fixed, tabs, client, task, ret, wire>>

\* What a connection attempt finds at the socket path: no file, a stale file
\* nobody listens on, or the listening server.
Endpoints == {"missing", "refusing", "up"}

\* ============================ AslanBrowser ===============================
SyncThread == "A"
asyncOnly == <<reader, writer, read_task, pending, fut>>

\* `if self._sock is None or self._file is None` in _call
SyncNotConnectedNever == FALSE
SyncNotConnected == sock = None \/ file = None
\* `if self._sock is not None: return` in connect()
SyncConnectedNever == FALSE
SyncConnected == sock # None

SyncIdle(t) == kind = "sync" /\ t = SyncThread /\ task[t].op = "idle"

\* _call up to the flush: take the next id, write the request line
SyncWrite(t, o, q, a) ==
  /\ next_id' = q.id
  /\ IF Writable
     THEN /\ wire' = Append(wire, q.id)
          /\ todo' = todo \cup {q}
          /\ task' = [task EXCEPT ![t] = [At(o, "read", q.id) EXCEPT !.arg = a]]
     ELSE /\ UNCHANGED <<wire, todo>>
          /\ task' = [task EXCEPT ![t] = [At(o, "raise", q.id) EXCEPT !.arg = a]]

SyncSend(t, o, m, s) == SyncWrite(t, o, Request(NextId(next_id), m, s), 0)

\* close()'s teardown: close the file and the socket
SyncTeardown ==
  /\ file' = None
  /\ sock' = None
  /\ link' = "none"
  /\ inbox' = <<>>
  /\ todo' = {}

\* what the method that called _call does with _call's outcome o; ib is
\* what is left of the stream after _call's reads
SyncFinish(t, o, ib) ==
  /\ task' = [task EXCEPT ![t] = Idle]
  /\ CASE task[t].op = "call" ->
            /\ ret' = [NoRets EXCEPT ![t] = Ret("call", o)]
            /\ inbox' = ib
            /\ UNCHANGED <<auto_session, session_id, owned_tabs, sock, file, link, todo>>
       [] task[t].op = "tab_create" ->
            /\ ret' = [NoRets EXCEPT ![t] = Ret("tab_create", o)]
            /\ owned_tabs' = IF o.kind = "result" THEN Append(owned_tabs, o.val) ELSE owned_tabs
            /\ inbox' = ib
            /\ UNCHANGED <<auto_session, session_id, sock, file, link, todo>>
       [] task[t].op = "tab_close" ->
            /\ ret' = [NoRets EXCEPT ![t] = Ret("tab_close", o)]
            /\ owned_tabs' = IF o.kind = "result" THEN ListRemove(owned_tabs, task[t].arg)
                                                  ELSE owned_tabs
            /\ inbox' = ib
            /\ UNCHANGED <<auto_session, session_id, sock, file, link, todo>>
       [] task[t].op = "session_destroy" ->
            /\ ret' = [NoRets EXCEPT ![t] =
                          Ret("session_destroy", [o EXCEPT !.closed = ClosedTabs(o)])]
            /\ owned_tabs' = IF o.kind = "result" THEN RemoveClosed(owned_tabs, ClosedTabs(o))
                                                  ELSE owned_tabs
            /\ inbox' = ib
            /\ UNCHANGED <<auto_session, session_id, sock, file, link, todo>>
       [] task[t].op = "batch" ->
            /\ ret' = [NoRets EXCEPT ![t] = Ret("batch", o)]
            /\ inbox' = ib
            /\ UNCHANGED <<auto_session, session_id, owned_tabs, sock, file, link, todo>>
       [] task[t].op = "connect" ->
            /\ ret' = [NoRets EXCEPT ![t] = Ret("connect", Returned)]
            /\ session_id' = SessionAfter(o)
            /\ auto_session' = AutoSessionAfter(o)
            /\ inbox' = ib
            /\ UNCHANGED <<owned_tabs, sock, file, link, todo>>
       [] task[t].op = "close" ->
            /\ ret' = [NoRets EXCEPT ![t] = Ret("close", Returned)]
            /\ session_id' = NoSession
            /\ owned_tabs' = <<>>
            /\ SyncTeardown
            /\ UNCHANGED auto_session

\* browser._call("navigate", ...)
SyncCall(t) ==
  /\ SyncIdle(t)
  /\ IF SyncNotConnected
     THEN /\ ret' = [NoRets EXCEPT ![t] = Ret("call", Exc("ConnectionError", NotConnectedMsg, 0))]
          /\ UNCHANGED <<next_id, wire, todo, task>>
     ELSE /\ next_id < MaxId
          /\ SyncSend(t, "call", "navigate", 0)
          /\ ret' = [ret EXCEPT ![t] = NoRet]
  /\ UNCHANGED <<fixed, tabs, auto_session, session_id, owned_tabs, sock, file, asyncOnly,
                 link, inbox>>

\* browser.tab_create(session_id=s)
SyncTabCreate(t, s) ==
  /\ SyncIdle(t)
  /\ IF SyncNotConnected
     THEN /\ ret' = [NoRets EXCEPT ![t] = Ret("tab_create", Exc("ConnectionError", NotConnectedMsg, 0))]
          /\ UNCHANGED <<next_id, wire, todo, task>>
     ELSE /\ next_id < MaxId
          /\ SyncSend(t, "tab_create", "tab.create", EffectiveSession(s))
          /\ ret' = [ret EXCEPT ![t] = NoRet]
  /\ UNCHANGED <<fixed, tabs, auto_session, session_id, owned_tabs, sock, file, asyncOnly,
                 link, inbox>>

\* browser.tab_close(x)
SyncTabClose(t, x) ==
  /\ SyncIdle(t)
  /\ IF SyncNotConnected
     THEN /\ ret' = [NoRets EXCEPT ![t] = Ret("tab_close", Exc("ConnectionError", NotConnectedMsg, 0))]
          /\ UNCHANGED <<next_id, wire, todo, task>>
     ELSE /\ next_id < MaxId
          /\ SyncWrite(t, "tab_close", TabRequest(NextId(next_id), "tab.close", x), x)
          /\ ret' = [ret EXCEPT ![t] = NoRet]
  /\ UNCHANGED <<fixed, tabs, auto_session, session_id, owned_tabs, sock, file, asyncOnly,
                 link, inbox>>

\* browser.session_destroy(s)
SyncSessionDestroy(t, s) ==
  /\ SyncIdle(t)
  /\ IF SyncNotConnected
     THEN /\ ret' = [NoRets EXCEPT ![t] =
                      Ret("session_destroy", Exc("ConnectionError", NotConnectedMsg, 0))]
          /\ UNCHANGED <<next_id, wire, todo, task>>
     ELSE /\ next_id < MaxId
          /\ SyncSend(t, "session_destroy", "session.destroy", s)
          /\ ret' = [ret EXCEPT ![t] = NoRet]
  /\ UNCHANGED <<fixed, tabs, auto_session, session_id, owned_tabs, sock, file, asyncOnly,
                 link, inbox>>

\* browser.batch(b)
SyncBatch(t, b) ==
  /\ SyncIdle(t)
  /\ IF SyncNotConnected
     THEN /\ ret' = [NoRets EXCEPT ![t] = Ret("batch", Exc("ConnectionError", NotConnectedMsg, 0))]
          /\ UNCHANGED <<next_id, wire, todo, task>>
     ELSE /\ next_id < MaxId
          /\ SyncWrite(t, "batch", BatchRequest(NextId(next_id), b), 0)
          /\ ret' = [ret EXCEPT ![t] = NoRet]
  /\ UNCHANGED <<fixed, tabs, auto_session, session_id, owned_tabs, sock, file, asyncOnly,
                 link, inbox>>

\* `"id" in response` and `response["id"] == req_id`
SyncMatchesAnyId(l, r) == HasId(l)
SyncMatches(l, r) == HasId(l) /\ l.id = r

\* the read loop of _call, one line per step
SyncRead(t) ==
  /\ kind = "sync" /\ task[t].pc = "read"
  /\ \/ /\ inbox # <<>>
        /\ LET l == Head(inbox) IN
           IF ~IsJson(l)
           THEN SyncFinish(t, Exc("JSONDecodeError", JsonErrorMsg, task[t].req), Tail(inbox))
           ELSE IF ~SyncMatches(l, task[t].req)
           THEN /\ inbox' = Tail(inbox)
                /\ UNCHANGED <<auto_session, session_id, owned_tabs, sock, file, link,
                               todo, task, ret>>
           ELSE SyncFinish(t, Reply(task[t].req, l), Tail(inbox))
     \/ /\ inbox = <<>>
        /\ link \in {"half", "closed"}
        /\ SyncFinish(t, Exc("ConnectionError", SyncEofMsg, task[t].req), inbox)
     \/ /\ link = "reset"
        /\ SyncFinish(t, Exc("ConnectionError", SyncResetMsg, task[t].req), inbox)
  /\ UNCHANGED <<fixed, tabs, next_id, asyncOnly, wire>>

\* the flush of _call failed: the exception leaves _call
SyncWriteFailed(t) ==
  /\ kind = "sync" /\ task[t].pc = "raise"
  /\ SyncFinish(t, Exc("ConnectionError", SyncPipeMsg, task[t].req), inbox)
  /\ UNCHANGED <<fixed, tabs, next_id, asyncOnly, wire>>

\* connect(): the guard at the top
SyncConnect(t) ==
  /\ SyncIdle(t)
  /\ IF SyncConnected
     THEN /\ ret' = [NoRets EXCEPT ![t] = Ret("connect", ReturnedEarly)]
          /\ UNCHANGED task
     ELSE /\ task' = [task EXCEPT ![t] = At("connect", "attempt", 0)]
          /\ ret' = [ret EXCEPT ![t] = NoRet]
  /\ UNCHANGED <<fixed, client, env>>

\* one pass of connect()'s retry loop, its sleep included
SyncConnectAttempt(t, endpoint) ==
  /\ kind = "sync" /\ task[t].op = "connect" /\ task[t].pc = "attempt"
  /\ IF endpoint # "up"
     THEN LET n == task[t].n + 1
              e == IF endpoint = "missing" THEN "missing" ELSE "refused" IN
          /\ IF n = Len(RETRY_DELAYS)
             THEN /\ ret' = [NoRets EXCEPT ![t] = Ret("connect", ConnectFailure(e))]
                  /\ task' = [task EXCEPT ![t] = [Idle EXCEPT !.n = n, !.err = e]]
             ELSE /\ task' = [task EXCEPT ![t].n = n, ![t].err = e]
                  /\ UNCHANGED ret
          /\ UNCHANGED <<auto_session, next_id, session_id, sock, file, link, inbox, wire, todo>>
     ELSE /\ sock' = "open" /\ file' = "open"
          /\ link' = "open" /\ inbox' = <<>>
          /\ IF WantsSession
             THEN /\ next_id < MaxId
                  /\ next_id' = NextId(next_id)
                  /\ wire' = Append(wire, NextId(next_id))
                  /\ todo' = {Request(NextId(next_id), "session.create", 0)}
                  /\ task' = [task EXCEPT ![t] = At("connect", "read", NextId(next_id))]
                  /\ UNCHANGED ret
             ELSE /\ todo' = {}
                  /\ task' = [task EXCEPT ![t] = Idle]
                  /\ ret' = [NoRets EXCEPT ![t] = Ret("connect", Returned)]
                  /\ UNCHANGED <<next_id, wire>>
          /\ UNCHANGED <<auto_session, session_id>>
  /\ UNCHANGED <<fixed, tabs, owned_tabs, asyncOnly>>

\* close()
SyncClose(t) ==
  /\ SyncIdle(t)
  /\ IF HoldsAutoSession /\ ~SyncNotConnected
     THEN /\ next_id < MaxId
          /\ SyncSend(t, "close", "session.destroy", session_id)
          /\ ret' = [ret EXCEPT ![t] = NoRet]
          /\ UNCHANGED <<session_id, owned_tabs, sock, file, link, inbox>>
     ELSE /\ session_id' = NoSession
          /\ owned_tabs' = <<>>
          /\ SyncTeardown
          /\ ret' = [NoRets EXCEPT ![t] = Ret("close", Returned)]
          /\ UNCHANGED <<next_id, wire, task>>
  /\ UNCHANGED <<fixed, tabs, auto_session, asyncOnly>>


\* ========================== AsyncAslanBrowser ============================
syncOnly == <<sock, file>>

\* connect() and close() are invoked by one task, the owner of the instance,
\* and not while another task is inside connect() or close(); so are
\* tab_close, session_destroy and batch.  The second task overlaps the owner
\* with _call and tab_create, at any point of any operation of the owner.
Owner == "A"
LifecycleFree(t) ==
  /\ t = Owner
  /\ \A u \in Tasks \ {t} : task[u].op \notin {"connect", "close"}

\* `if self._writer is None` in _call
AsyncNotConnectedNever == FALSE
AsyncNotConnected == writer = None
\* `if self._reader is not None: return` in connect()
AsyncConnectedNever == FALSE
AsyncConnected == reader # None

\* The second caller matters only while it overlaps the first: "B" starts an
\* operation only while "A" is inside one.
AsyncIdle(t) ==
  /\ kind = "async" /\ task[t].op = "idle"
  /\ t = "B" => task["A"].op # "idle"

\* _call from the id increment to the drain: take the next id, register the
\* future, write the line.  On a transport that no longer takes writes the
\* line is dropped and drain() raises, the future staying registered.
AsyncWrite(t, o, q, a) ==
  /\ next_id' = q.id
  /\ pending' = pending \cup {q.id}
  /\ fut' = [fut EXCEPT ![q.id] = FutWaiting]
  /\ IF Writable
     THEN /\ wire' = Append(wire, q.id)
          /\ todo' = todo \cup {q}
          /\ task' = [task EXCEPT ![t] = [At(o, "await", q.id) EXCEPT !.arg = a]]
     ELSE /\ UNCHANGED <<wire, todo>>
          /\ task' = [task EXCEPT ![t] = [At(o, "drain", q.id) EXCEPT !.arg = a]]

AsyncSend(t, o, m, s) == AsyncWrite(t, o, Request(NextId(next_id), m, s), 0)

\* the task suspended in _call can run again
AsyncDone(t) ==
  \/ task[t].pc = "drain"
  \/ task[t].pc = "await" /\ fut[task[t].req].st # "waiting"

\* how _call ends: drain()'s exception, the future's exception, or the
\* response the future was resolved with
AsyncOutcome(t) ==
  LET r == task[t].req
      f == fut[r] IN
  IF task[t].pc = "drain" THEN Exc("ConnectionError", WriteFailedMsg, r)
  ELSE IF f.st = "result" THEN Reply(r, f.msg)
  ELSE IF f.st = "lost" THEN Exc("ConnectionError", ConnLostMsg, r)
  ELSE Exc("ConnectionError", ConnClosedMsg, r)

\* finally: self._pending.pop(req_id, None) -- only around `await future`
AsyncPopped(t) == IF task[t].pc = "await" THEN pending \ {task[t].req} ELSE pending
AsyncDropped(t) ==
  IF task[t].pc = "await" THEN [fut EXCEPT ![task[t].req] = FutNone] ELSE fut

\* the `finally` of _read_loop, and the tail of close(): fail what is pending
\* (a future that no task awaits any more is forgotten)
Awaited(i) == \E t \in Tasks : task[t].pc = "await" /\ task[t].req = i
FailPending(p, f, k) ==
  [i \in Ids |-> IF ~Awaited(i) THEN FutNone
                 ELSE IF i \in p /\ f[i].st = "waiting" THEN FutExc(k) ELSE f[i]]

\* close() from `self._writer = None` on
AsyncTeardown3(t, p, f) ==
  /\ writer' = None
  /\ reader' = None
  /\ fut' = FailPending(p, f, "closed")
  /\ pending' = {}
  /\ link' = "none"
  /\ inbox' = <<>>
  /\ todo' = {}
  /\ task' = [task EXCEPT ![t] = Idle]
  /\ ret' = [NoRets EXCEPT ![t] = Ret("close", Returned)]

\* close() from `self._read_task = None` on
AsyncTeardown2(t, p, f) ==
  /\ read_task' = None
  /\ IF writer # None
     THEN /\ link' = "shut"
          /\ inbox' = <<>>
          /\ todo' = {}
          /\ task' = [task EXCEPT ![t] = At("close", "wait_closed", 0)]
          /\ pending' = p
          /\ fut' = f
          /\ UNCHANGED <<writer, reader, ret>>
     ELSE AsyncTeardown3(t, p, f)

\* close() from `if self._read_task:` on
AsyncTeardown(t, p, f) ==
  IF read_task \in {"running", "sink", "cancelling"}
  THEN /\ read_task' = "cancelling"
       /\ task' = [task EXCEPT ![t] = At("close", "cancel", 0)]
       /\ pending' = p
       /\ fut' = f
       /\ UNCHANGED <<writer, reader, link, inbox, todo, ret>>
  ELSE AsyncTeardown2(t, p, f)

\* await browser._call("navigate", ...)
AsyncCall(t) ==
  /\ AsyncIdle(t)
  /\ IF AsyncNotConnected
     THEN /\ ret' = [NoRets EXCEPT ![t] = Ret("call", Exc("ConnectionError", NotConnectedMsg, 0))]
          /\ UNCHANGED <<next_id, pending, fut, wire, todo, task>>
     ELSE /\ next_id < MaxId
          /\ AsyncSend(t, "call", "navigate", 0)
          /\ ret' = [ret EXCEPT ![t] = NoRet]
  /\ UNCHANGED <<fixed, tabs, auto_session, session_id, owned_tabs, syncOnly, reader, writer,
                 read_task, link, inbox>>

AsyncCallResume(t) ==
  /\ kind = "async" /\ task[t].op = "call" /\ AsyncDone(t)
  /\ ret' = [NoRets EXCEPT ![t] = Ret("call", AsyncOutcome(t))]
  /\ task' = [task EXCEPT ![t] = Idle]
  /\ pending' = AsyncPopped(t)
  /\ fut' = AsyncDropped(t)
  /\ UNCHANGED <<fixed, auto_session, next_id, session_id, owned_tabs, syncOnly, reader,
                 writer, read_task, env>>

\* await browser.tab_create(session_id=s)
AsyncTabCreate(t, s) ==
  /\ AsyncIdle(t)
  /\ IF AsyncNotConnected
     THEN /\ ret' = [NoRets EXCEPT ![t] = Ret("tab_create", Exc("ConnectionError", NotConnectedMsg, 0))]
          /\ UNCHANGED <<next_id, pending, fut, wire, todo, task>>
     ELSE /\ next_id < MaxId
          /\ AsyncSend(t, "tab_create", "tab.create", EffectiveSession(s))
          /\ ret' = [ret EXCEPT ![t] = NoRet]
  /\ UNCHANGED <<fixed, tabs, auto_session, session_id, owned_tabs, syncOnly, reader, writer,
                 read_task, link, inbox>>

AsyncTabCreateResume(t) ==
  /\ kind = "async" /\ task[t].op = "tab_create" /\ AsyncDone(t)
  /\ LET o == AsyncOutcome(t) IN
     /\ ret' = [NoRets EXCEPT ![t] = Ret("tab_create", o)]
     /\ owned_tabs' = IF o.kind = "result" THEN Append(owned_tabs, o.val) ELSE owned_tabs
  /\ task' = [task EXCEPT ![t] = Idle]
  /\ pending' = AsyncPopped(t)
  /\ fut' = AsyncDropped(t)
  /\ UNCHANGED <<fixed, auto_session, next_id, session_id, syncOnly, reader,
                 writer, read_task, env>>

\* await browser.tab_close(x)
AsyncTabClose(t, x) ==
  /\ AsyncIdle(t) /\ t = Owner
  /\ IF AsyncNotConnected
     THEN /\ ret' = [NoRets EXCEPT ![t] = Ret("tab_close", Exc("ConnectionError", NotConnectedMsg, 0))]
          /\ UNCHANGED <<next_id, pending, fut, wire, todo, task>>
     ELSE /\ next_id < MaxId
          /\ AsyncWrite(t, "tab_close", TabRequest(NextId(next_id), "tab.close", x), x)
          /\ ret' = [ret EXCEPT ![t] = NoRet]
  /\ UNCHANGED <<fixed, tabs, auto_session, session_id, owned_tabs, syncOnly, reader, writer,
                 read_task, link, inbox>>

AsyncTabCloseResume(t) ==
  /\ kind = "async" /\ task[t].op = "tab_close" /\ AsyncDone(t)
  /\ LET o == AsyncOutcome(t) IN
     /\ ret' = [NoRets EXCEPT ![t] = Ret("tab_close", o)]
     /\ owned_tabs' = IF o.kind = "result" THEN ListRemove(owned_tabs, task[t].arg)
                                           ELSE owned_tabs
  /\ task' = [task EXCEPT ![t] = Idle]
  /\ pending' = AsyncPopped(t)
  /\ fut' = AsyncDropped(t)
  /\ UNCHANGED <<fixed, auto_session, next_id, session_id, syncOnly, reader,
                 writer, read_task, env>>

\* await browser.session_destroy(s)
AsyncSessionDestroy(t, s) ==
  /\ AsyncIdle(t) /\ t = Owner
  /\ IF AsyncNotConnected
     THEN /\ ret' = [NoRets EXCEPT ![t] =
                      Ret("session_destroy", Exc("ConnectionError", NotConnectedMsg, 0))]
          /\ UNCHANGED <<next_id, pending, fut, wire, todo, task>>
     ELSE /\ next_id < MaxId
          /\ AsyncSend(t, "session_destroy", "session.destroy", s)
          /\ ret' = [ret EXCEPT ![t] = NoRet]
  /\ UNCHANGED <<fixed, tabs, auto_session, session_id, owned_tabs, syncOnly, reader, writer,
                 read_task, link, inbox>>

AsyncSessionDestroyResume(t) ==
  /\ kind = "async" /\ task[t].op = "session_destroy" /\ AsyncDone(t)
  /\ LET o == AsyncOutcome(t) IN
     /\ ret' = [NoRets EXCEPT ![t] =
                   Ret("session_destroy", [o EXCEPT !.closed = ClosedTabs(o)])]
     /\ owned_tabs' = IF o.kind = "result" THEN RemoveClosed(owned_tabs, ClosedTabs(o))
                                           ELSE owned_tabs
  /\ task' = [task EXCEPT ![t] = Idle]
  /\ pending' = AsyncPopped(t)
  /\ fut' = AsyncDropped(t)
  /\ UNCHANGED <<fixed, auto_session, next_id, session_id, syncOnly, reader,
                 writer, read_task, env>>

\* await browser.batch(b)
AsyncBatch(t, b) ==
  /\ AsyncIdle(t) /\ t = Owner
  /\ IF AsyncNotConnected
     THEN /\ ret' = [NoRets EXCEPT ![t] = Ret("batch", Exc("ConnectionError", NotConnectedMsg, 0))]
          /\ UNCHANGED <<next_id, pending, fut, wire, todo, task>>
     ELSE /\ next_id < MaxId
          /\ AsyncWrite(t, "batch", BatchRequest(NextId(next_id), b), 0)
          /\ ret' = [ret EXCEPT ![t] = NoRet]
  /\ UNCHANGED <<fixed, tabs, auto_session, session_id, owned_tabs, syncOnly, reader, writer,
                 read_task, link, inbox>>

AsyncBatchResume(t) ==
  /\ kind = "async" /\ task[t].op = "batch" /\ AsyncDone(t)
  /\ ret' = [NoRets EXCEPT ![t] = Ret("batch", AsyncOutcome(t))]
  /\ task' = [task EXCEPT ![t] = Idle]
  /\ pending' = AsyncPopped(t)
  /\ fut' = AsyncDropped(t)
  /\ UNCHANGED <<fixed, auto_session, next_id, session_id, owned_tabs, syncOnly, reader,
                 writer, read_task, env>>

\* ---- _read_loop ----------------------------------------------------------
\* the future the reader resolves for an inbound line
WaiterOldest(l) == CHOOSE i \in pending : \A j \in pending : i <= j
Waiter(l) == l.id

\* the `finally` block; the reader task is over
ReaderFinallyClearOnly(f) ==
  /\ fut' = f
  /\ pending' = {}
  /\ read_task' = "done"
ReaderFinally(f) ==
  /\ fut' = FailPending(pending, f, "lost")
  /\ pending' = {}
  /\ read_task' = "done"

\* `"id" in msg and msg["id"] in self._pending`
KnownAnyId(l) == HasId(l)
Known(l) == HasId(l) /\ l.id \in pending
\* `elif "method" in msg`: the line goes to self._on_event
ForSink(l) == HasMethod(l)
\* how the callback ends: it returns / its coroutine finishes, or it raises;
\* `except Exception: pass` keeps both inside the loop
ContainedReturnOnly(o) == o = "return"
Contained(o) == o \in {"return", "raise"}

\* one line read and routed
ReaderStep ==
  /\ kind = "async" /\ read_task = "running" /\ reader # None
  /\ inbox # <<>>
  /\ LET l == Head(inbox) IN
     IF ~IsJson(l)
     THEN /\ inbox' = Tail(inbox)      \* except json.JSONDecodeError: continue
          /\ UNCHANGED <<pending, fut, read_task>>
     ELSE IF Known(l)
     THEN IF fut[Waiter(l)].st = "waiting"
          THEN /\ fut' = [fut EXCEPT ![Waiter(l)] = FutResult(l)]
               /\ inbox' = Tail(inbox)
               /\ UNCHANGED <<pending, read_task>>
          ELSE /\ ReaderFinally(fut)   \* set_result raises InvalidStateError
               /\ inbox' = <<>>
     ELSE /\ inbox' = Tail(inbox)
          /\ read_task' = IF ForSink(l) /\ on_event THEN "sink" ELSE read_task
          /\ UNCHANGED <<pending, fut>>
  /\ UNCHANGED <<fixed, tabs, auto_session, next_id, session_id, owned_tabs, syncOnly, reader,
                 writer, task, ret, link, wire, todo>>

\* self._on_event(msg) and, for a coroutine, `await result` are over; until
\* then the reader reads nothing
SinkDone(o) ==
  /\ kind = "async" /\ read_task = "sink"
  /\ IF Contained(o)
     THEN /\ read_task' = "running"
          /\ UNCHANGED <<pending, fut, inbox>>
     ELSE /\ ReaderFinally(fut)
          /\ inbox' = <<>>
  /\ UNCHANGED <<fixed, tabs, auto_session, next_id, session_id, owned_tabs, syncOnly, reader,
                 writer, task, ret, link, wire, todo>>

\* browser.on_event(callback)
AsyncOnEvent ==
  /\ kind = "async" /\ ~on_event
  /\ on_event' = TRUE
  /\ UNCHANGED <<kind, hin, hout, cli, conns, client, task, ret, env>>

\* readline() returns b"": end of stream
ReaderEOF ==
  /\ kind = "async" /\ read_task = "running"
  /\ inbox = <<>> /\ link \in {"half", "closed"}
  /\ ReaderFinally(fut)
  /\ inbox' = <<>>
  /\ UNCHANGED <<fixed, tabs, auto_session, next_id, session_id, owned_tabs, syncOnly, reader,
                 writer, task, ret, link, wire, todo>>

\* readline() raises
ReaderError ==
  /\ kind = "async" /\ read_task = "running"
  /\ link = "reset"
  /\ ReaderFinally(fut)
  /\ inbox' = <<>>
  /\ UNCHANGED <<fixed, tabs, auto_session, next_id, session_id, owned_tabs, syncOnly, reader,
                 writer, task, ret, link, wire, todo>>

\* CancelledError is thrown into the reader by close()
ReaderCancelled ==
  /\ kind = "async" /\ read_task = "cancelling"
  /\ ReaderFinally(fut)
  /\ inbox' = <<>>
  /\ UNCHANGED <<fixed, tabs, auto_session, next_id, session_id, owned_tabs, syncOnly, reader,
                 writer, task, ret, link, wire, todo>>

\* ---- connect() -----------------------------------------------------------
AsyncConnect(t) ==
  /\ AsyncIdle(t) /\ LifecycleFree(t)
  /\ IF AsyncConnected
     THEN /\ ret' = [NoRets EXCEPT ![t] = Ret("connect", ReturnedEarly)]
          /\ UNCHANGED task
     ELSE /\ task' = [task EXCEPT ![t] = At("connect", "attempt", 0)]
          /\ ret' = [ret EXCEPT ![t] = NoRet]
  /\ UNCHANGED <<fixed, client, env>>

\* an attempt failed: sleep, then the next pass or the final raise
AsyncAttemptFailed(t, e) ==
  LET n == task[t].n + 1 IN
  IF n = Len(RETRY_DELAYS)
  THEN /\ ret' = [NoRets EXCEPT ![t] = Ret("connect", ConnectFailure(e))]
       /\ task' = [task EXCEPT ![t] = [Idle EXCEPT !.n = n, !.err = e]]
  ELSE /\ task' = [task EXCEPT ![t] = [At("connect", "attempt", 0) EXCEPT !.n = n, !.err = e]]
       /\ UNCHANGED ret

\* the os.path.exists check of one pass
AsyncConnectAttempt(t, endpoint) ==
  /\ kind = "async" /\ task[t].op = "connect" /\ task[t].pc = "attempt"
  /\ IF endpoint = "missing"
     THEN AsyncAttemptFailed(t, "missing")
     ELSE /\ task' = [task EXCEPT ![t].pc = "opening"]
          /\ UNCHANGED ret
  /\ UNCHANGED <<fixed, client, env>>

\* open_unix_connection() returns or raises
AsyncConnectOpened(t, endpoint) ==
  /\ kind = "async" /\ task[t].op = "connect" /\ task[t].pc = "opening"
  /\ IF endpoint # "up"
     THEN /\ AsyncAttemptFailed(t, "refused")
          /\ UNCHANGED <<next_id, reader, writer, read_task, pending, fut, link, inbox, wire, todo>>
     ELSE /\ reader' = "open" /\ writer' = "open"
          /\ read_task' = "running"
          /\ link' = "open" /\ inbox' = <<>>
          /\ IF WantsSession
             THEN /\ next_id < MaxId
                  /\ next_id' = NextId(next_id)
                  /\ pending' = pending \cup {NextId(next_id)}
                  /\ fut' = [fut EXCEPT ![NextId(next_id)] = FutWaiting]
                  /\ wire' = Append(wire, NextId(next_id))
                  /\ todo' = {Request(NextId(next_id), "session.create", 0)}
                  /\ task' = [task EXCEPT ![t] = At("connect", "await", NextId(next_id))]
                  /\ UNCHANGED ret
             ELSE /\ todo' = {}
                  /\ task' = [task EXCEPT ![t] = Idle]
                  /\ ret' = [NoRets EXCEPT ![t] = Ret("connect", Returned)]
                  /\ UNCHANGED <<next_id, pending, fut, wire>>
  /\ UNCHANGED <<fixed, tabs, auto_session, session_id, owned_tabs, syncOnly>>

\* session.create returned or raised
AsyncConnectResume(t) ==
  /\ kind = "async" /\ task[t].op = "connect" /\ AsyncDone(t)
  /\ session_id' = SessionAfter(AsyncOutcome(t))
  /\ auto_session' = AutoSessionAfter(AsyncOutcome(t))
  /\ ret' = [NoRets EXCEPT ![t] = Ret("connect", Returned)]
  /\ task' = [task EXCEPT ![t] = Idle]
  /\ pending' = AsyncPopped(t)
  /\ fut' = AsyncDropped(t)
  /\ UNCHANGED <<fixed, next_id, owned_tabs, syncOnly, reader, writer, read_task, env>>

\* ---- close() -------------------------------------------------------------
AsyncClose(t) ==
  /\ AsyncIdle(t) /\ LifecycleFree(t)
  /\ IF HoldsAutoSession /\ ~AsyncNotConnected
     THEN /\ next_id < MaxId
          /\ AsyncSend(t, "close", "session.destroy", session_id)
          /\ ret' = [ret EXCEPT ![t] = NoRet]
          /\ UNCHANGED <<session_id, owned_tabs, reader, writer, read_task, link, inbox>>
     ELSE /\ session_id' = NoSession
          /\ owned_tabs' = <<>>
          /\ AsyncTeardown(t, pending, fut)
          /\ UNCHANGED <<next_id, wire>>
  /\ UNCHANGED <<fixed, tabs, auto_session, syncOnly>>

\* session.destroy returned or raised
AsyncCloseResume(t) ==
  /\ kind = "async" /\ task[t].op = "close" /\ task[t].pc \in {"await", "drain"}
  /\ AsyncDone(t)
  /\ session_id' = NoSession
  /\ owned_tabs' = <<>>
  /\ AsyncTeardown(t, AsyncPopped(t), AsyncDropped(t))
  /\ UNCHANGED <<fixed, tabs, auto_session, next_id, syncOnly, wire>>

\* `await self._read_task` returned
AsyncCloseCancelled(t) ==
  /\ kind = "async" /\ task[t].op = "close" /\ task[t].pc = "cancel"
  /\ read_task = "done"
  /\ AsyncTeardown2(t, pending, fut)
  /\ UNCHANGED <<fixed, tabs, auto_session, next_id, session_id, owned_tabs, syncOnly,
                 wire>>

\* `await self._writer.wait_closed()` returned
AsyncCloseClosed(t) ==
  /\ kind = "async" /\ task[t].op = "close" /\ task[t].pc = "wait_closed"
  /\ AsyncTeardown3(t, pending, fut)
  /\ UNCHANGED <<fixed, tabs, auto_session, next_id, session_id, owned_tabs, syncOnly,
                 read_task, wire>>

\* ================= batch() and the fan-out helpers =======================
\* An entry of the server's "responses": {"result": {member: value of tab}}
\* or {"error": {"code": code, ...}}.
SubResult(m, x) == [t |-> "result", member |-> m, of |-> x, code |-> 0]
SubError(c) == [t |-> "error", member |-> "", of |-> 0, code |-> c]

\* the member a method's result carries
Member(m) ==
  CASE m = "getAccessibilityTree" -> "tree"
    [] m = "screenshot" -> "data"
    [] m = "navigate" -> "url"
    [] OTHER -> "title"

\* The server runs the items of a batch one by one, in the order given, and
\* answers each at its own position: a nested batch and an item without a
\* method are rejected, a tab it does not have is not found.
ServerSub(r, open) ==
  IF r.method = "batch" THEN SubError(-32600)
  ELSE IF r.method = "" THEN SubError(-32602)
  ELSE IF r.tab \notin open THEN SubError(-32000)
  ELSE SubResult(Member(r.method), r.tab)
ServerBatch(rs, open) ==
  [has |-> TRUE, responses |-> [k \in DOMAIN rs |-> ServerSub(rs[k], open)]]

\* batch(): return result.get("responses", [])
BatchReturnResultsOnly(result) ==
  IF result.has THEN SelectSeq(result.responses, LAMBDA e : e.t = "result") ELSE <<>>
BatchReturn(result) == IF result.has THEN result.responses ELSE <<>>

\* batch(requests), the request passing `requests` on as it is; the round
\* trip of its _call is SyncBatch / AsyncBatch, here it is taken as answered
batchWithoutNested(rs, open) ==
  BatchReturn(ServerBatch(SelectSeq(rs, LAMBDA r : r.method # "batch"), open))
batch(rs, open) == BatchReturn(ServerBatch(rs, open))

\* zip(tab_ids, responses): the positions both have
Zip(ids, rs) == 1..(IF Len(ids) < Len(rs) THEN Len(ids) ELSE Len(rs))
\* result[tid] = ... in a loop: the last position of a key is the one kept
LastOfAll(x, ids, z) == CHOOSE k \in z : \A j \in z : j <= k
LastOf(x, ids, z) == CHOOSE k \in z : ids[k] = x /\ \A j \in z : ids[j] = x => j <= k

\* the values of the returned maps: a tree, a page ({"url", "title"}), JPEG
\* bytes, each of the tab `of`; the empty list; the server's error object
Value(k, x) == [kind |-> k, of |-> x, code |-> 0]
EmptyList == [kind |-> "empty", of |-> 0, code |-> 0]
ErrorObject(c) == [kind |-> "error", of |-> 0, code |-> c]

SubRequests(m, ids) == [k \in DOMAIN ids |-> SubRequest(m, ids[k])]

\* parallel_get_trees(tab_ids)
parallel_get_trees(ids, open) ==
  LET rs == batch(SubRequests("getAccessibilityTree", ids), open)
      z == Zip(ids, rs) IN
  [x \in {ids[k] : k \in z} |->
     LET r == rs[LastOf(x, ids, z)] IN
     IF r.t = "result"
     THEN IF r.member = "tree" THEN Value("tree", r.of) ELSE EmptyList
     ELSE EmptyList]

\* parallel_navigate(urls); ids are the keys of urls
parallel_navigate_omitting(ids, open) ==
  LET rs == batch(SubRequests("navigate", ids), open)
      z == {k \in Zip(ids, rs) : rs[k].t = "result"} IN
  [x \in {ids[k] : k \in z} |-> Value("page", rs[LastOf(x, ids, z)].of)]
parallel_navigate(ids, open) ==
  LET rs == batch(SubRequests("navigate", ids), open)
      z == Zip(ids, rs) IN
  [x \in {ids[k] : k \in z} |->
     LET r == rs[LastOf(x, ids, z)] IN
     IF r.t = "result" THEN Value("page", r.of) ELSE ErrorObject(r.code)]

\* parallel_screenshots(tab_ids)
parallel_screenshots(ids, open) ==
  LET rs == batch(SubRequests("screenshot", ids), open)
      z == {k \in Zip(ids, rs) : rs[k].t = "result" /\ rs[k].member = "data"} IN
  [x \in {ids[k] : k \in z} |-> Value("jpeg", rs[LastOf(x, ids, z)].of)]

\* the calls
CallBatch ==
  /\ hin.helper = "batch" /\ ~hout.done
  /\ hout' = [NoOut EXCEPT !.done = TRUE, !.list = batch(hin.reqs, hin.open)]
  /\ UNCHANGED <<kind, client, task, ret, env, on_event, hin, cli, conns>>
CallParallelGetTrees ==
  /\ hin.helper = "parallel_get_trees" /\ ~hout.done
  /\ hout' = [NoOut EXCEPT !.done = TRUE, !.map = parallel_get_trees(hin.ids, hin.open)]
  /\ UNCHANGED <<kind, client, task, ret, env, on_event, hin, cli, conns>>
CallParallelNavigate ==
  /\ hin.helper = "parallel_navigate" /\ ~hout.done
  /\ hout' = [NoOut EXCEPT !.done = TRUE, !.map = parallel_navigate(hin.ids, hin.open)]
  /\ UNCHANGED <<kind, client, task, ret, env, on_event, hin, cli, conns>>
CallParallelScreenshots ==
  /\ hin.helper = "parallel_screenshots" /\ ~hout.done
  /\ hout' = [NoOut EXCEPT !.done = TRUE, !.map = parallel_screenshots(hin.ids, hin.open)]
  /\ UNCHANGED <<kind, client, task, ret, env, on_event, hin, cli, conns>>

\* the arguments: lists of at most MaxBatch entries over MaxBatch tab ids,
\* of which the server has any subset
TabPool == 1..MaxBatch
RECURSIVE Lists(_, _)
Lists(S, n) ==
  IF n = 0 THEN {<<>>}
  ELSE Lists(S, n - 1) \cup {Append(l, x) : l \in {m \in Lists(S, n - 1) : Len(m) = n - 1}, x \in S}
Distinct(l) == \A j, k \in DOMAIN l : l[j] = l[k] => j = k
SubRequestPool == {SubRequest(m, x) : m \in {"getTitle", "batch", ""}, x \in TabPool}
HelperInputs ==
  {[NoIn EXCEPT !.helper = "batch", !.reqs = l, !.open = o] :
      l \in Lists(SubRequestPool, MaxBatch), o \in SUBSET TabPool}
  \cup {[NoIn EXCEPT !.helper = h, !.ids = l, !.open = o] :
      h \in {"parallel_get_trees", "parallel_screenshots"},
      l \in Lists(TabPool, MaxBatch), o \in SUBSET TabPool}
  \cup {[NoIn EXCEPT !.helper = "parallel_navigate", !.ids = l, !.open = o] :
      l \in {m \in Lists(TabPool, MaxBatch) : Distinct(m)}, o \in SUBSET TabPool}

\* ============================ specification ==============================
\* the arguments callers pass: session_id of tab_create (0: none); tab_id of
\* tab_close (0: tab0, else a tab that is open or owned); session_id of
\* session_destroy; the list of batch (one tab.close of an owned tab)
Sessions == {NoSession, OtherSession}
TabArgs == {0} \cup ServerOpen \cup Range(owned_tabs)
SessionArgs == {OtherSession} \cup ({session_id} \ {NoSession})
BatchArgs == {<<SubRequest("tab.close", x)>> : x \in Range(owned_tabs)}

Next ==
  \/ ServerRespond \/ ServerNotify \/ ServerShutdown \/ ServerClose
  \/ ConnReset
  \/ \E t \in Tasks : SyncCall(t)
  \/ \E t \in Tasks : \E s \in Sessions : SyncTabCreate(t, s)
  \/ \E t \in Tasks : \E x \in TabArgs : SyncTabClose(t, x)
  \/ \E t \in Tasks : \E s \in SessionArgs : SyncSessionDestroy(t, s)
  \/ \E t \in Tasks : \E b \in BatchArgs : SyncBatch(t, b)
  \/ \E t \in Tasks : SyncRead(t)
  \/ \E t \in Tasks : SyncWriteFailed(t)
  \/ \E t \in Tasks : SyncConnect(t)
  \/ \E t \in Tasks : \E e \in Endpoints : SyncConnectAttempt(t, e)
  \/ \E t \in Tasks : SyncClose(t)
  \/ \E t \in Tasks : AsyncCall(t)
  \/ \E t \in Tasks : AsyncCallResume(t)
  \/ \E t \in Tasks : \E s \in Sessions : AsyncTabCreate(t, s)
  \/ \E t \in Tasks : AsyncTabCreateResume(t)
  \/ \E t \in Tasks : \E x \in TabArgs : AsyncTabClose(t, x)
  \/ \E t \in Tasks : AsyncTabCloseResume(t)
  \/ \E t \in Tasks : \E s \in SessionArgs : AsyncSessionDestroy(t, s)
  \/ \E t \in Tasks : AsyncSessionDestroyResume(t)
  \/ \E t \in Tasks : \E b \in BatchArgs : AsyncBatch(t, b)
  \/ \E t \in Tasks : AsyncBatchResume(t)
  \/ ReaderStep \/ ReaderEOF \/ ReaderError \/ ReaderCancelled
  \/ \E t \in Tasks : AsyncConnect(t)
  \/ \E t \in Tasks : \E e \in Endpoints : AsyncConnectAttempt(t, e)
  \/ \E t \in Tasks : \E e \in Endpoints : AsyncConnectOpened(t, e)
  \/ \E t \in Tasks : AsyncConnectResume(t)
  \/ \E t \in Tasks : AsyncClose(t)
  \/ \E t \in Tasks : AsyncCloseResume(t)
  \/ \E t \in Tasks : AsyncCloseCancelled(t)
  \/ \E t \in Tasks : AsyncCloseClosed(t)

Spec == Init /\ [][Next]_vars

\* The client without sessions (auto_session=False) and with an event sink,
\* two callers in _call, facing a server that may also break the protocol.
RouterInit == Init /\ ~auto_session
RouterNext ==
  \/ ServerRespond \/ ServerNotify \/ ServerStray \/ ServerShutdown \/ ServerClose
  \/ ConnReset
  \/ \E t \in Tasks : SyncCall(t)
  \/ \E t \in Tasks : SyncRead(t)
  \/ \E t \in Tasks : SyncWriteFailed(t)
  \/ \E t \in Tasks : SyncConnect(t)
  \/ \E t \in Tasks : \E e \in Endpoints : SyncConnectAttempt(t, e)
  \/ \E t \in Tasks : SyncClose(t)
  \/ AsyncOnEvent
  \/ \E t \in Tasks : AsyncCall(t)
  \/ \E t \in Tasks : AsyncCallResume(t)
  \/ ReaderStep \/ ReaderEOF \/ ReaderError \/ ReaderCancelled
  \/ \E o \in {"return", "raise"} : SinkDone(o)
  \/ \E t \in Tasks : AsyncConnect(t)
  \/ \E t \in Tasks : \E e \in Endpoints : AsyncConnectAttempt(t, e)
  \/ \E t \in Tasks : \E e \in Endpoints : AsyncConnectOpened(t, e)
  \/ \E t \in Tasks : AsyncClose(t)
  \/ \E t \in Tasks : AsyncCloseCancelled(t)
  \/ \E t \in Tasks : AsyncCloseClosed(t)
RouterSpec == RouterInit /\ [][RouterNext]_vars

\* an instance just built, before connect()
Fresh ==
  /\ next_id = 0
  /\ session_id = NoSession
  /\ owned_tabs = <<>>
  /\ sock = None /\ file = None
  /\ reader = None /\ writer = None
  /\ read_task = None
  /\ pending = {}
  /\ fut = [i \in Ids |-> FutNone]
  /\ task = [t \in Tasks |-> Idle]
  /\ ret = [t \in Tasks |-> NoRet]
  /\ link = "none"
  /\ inbox = <<>>
  /\ wire = <<>>
  /\ todo = {}
  /\ tabs = {}
  /\ on_event = FALSE
\* batch() and the fan-out helpers, each applied to every argument
HelperInit ==
  /\ kind \in {"sync", "async"}
  /\ auto_session = FALSE
  /\ Fresh
  /\ hin \in HelperInputs
  /\ hout = NoOut
  /\ cli = NoCli
  /\ conns = NoConns
HelperNext ==
  \/ CallBatch \/ CallParallelGetTrees \/ CallParallelNavigate \/ CallParallelScreenshots
HelperSpec == HelperInit /\ [][HelperNext]_vars

\* ====================== cli.py: _run(func, args) ==========================
\* How a run of func(args) ends: it returns (exc = ""), or raises
\* AslanBrowserError(code, message) or ConnectionError.
CliOutcomes ==
  { [exc |-> "", code |-> 0, message |-> ""],
    [exc |-> "AslanBrowserError", code |-> -32000, message |-> "Tab not found"],
    [exc |-> "AslanBrowserError", code |-> -32000, message |-> "Element not found"],
    [exc |-> "AslanBrowserError", code |-> -32001, message |-> "JavaScript error"],
    [exc |-> "ConnectionError", code |-> 0, message |-> "Connection closed by aslan-browser."] }

\* e.code == -32000 and "Tab not found" in e.message
TabNotFound(e) == e.code = -32000 /\ e.message = "Tab not found"

\* _current_tab(args): the --tab flag, or the current tab of the state file
current_tab(c) == IF c.tab # "" THEN c.tab ELSE c.state

\* try: func(args); return 0 -- and the two outer handlers
Run ==
  /\ cli.pc = "run"
  /\ cli' = [cli EXCEPT
               !.ran = <<current_tab(cli)>>,
               !.pc = IF cli.first.exc = "AslanBrowserError" THEN "except" ELSE "done",
               !.exit = CASE cli.first.exc = "" -> 0
                          [] cli.first.exc = "ConnectionError" -> 1
                          [] OTHER -> -1]
  /\ UNCHANGED <<kind, on_event, hin, hout, conns, client, task, ret, env>>

\* except AslanBrowserError as e, up to the retry: _handle_tab_not_found
\* stores tab0 and returns it, or re-raises e when the tab is tab0 already
RunExcept ==
  /\ cli.pc = "except"
  /\ cli' = IF ~TabNotFound(cli.first)
            THEN [cli EXCEPT !.pc = "done", !.exit = 1]
            ELSE IF current_tab(cli) # "tab0"
            THEN [cli EXCEPT !.pc = "retry", !.state = "tab0", !.tab = "tab0"]
            ELSE [cli EXCEPT !.pc = "done", !.raised = "AslanBrowserError"]
  /\ UNCHANGED <<kind, on_event, hin, hout, conns, client, task, ret, env>>

\* the retry inside the handler: try: func(args); return 0 / except
\* AslanBrowserError: return 1
RunRetry ==
  /\ cli.pc = "retry"
  /\ cli' = [cli EXCEPT
               !.ran = Append(cli.ran, current_tab(cli)),
               !.pc = "done",
               !.exit = CASE cli.second.exc = "" -> 0
                          [] cli.second.exc = "AslanBrowserError" -> 1
                          [] OTHER -> -1,
               !.raised = IF cli.second.exc = "ConnectionError" THEN "ConnectionError" ELSE ""]
  /\ UNCHANGED <<kind, on_event, hin, hout, conns, client, task, ret, env>>

\* _run over every --tab flag, stored tab and pair of outcomes of func; the
\* client is the one func builds and closes inside each run
CliInit ==
  /\ kind = "sync"
  /\ auto_session = FALSE
  /\ Fresh
  /\ hin = NoIn /\ hout = NoOut
  /\ conns = NoConns
  /\ cli \in {[NoCli EXCEPT !.tab = a, !.state = f, !.first = o, !.second = p, !.pc = "run"] :
                a \in {"", "tab0", "tab1"}, f \in {"tab0", "tab1", "tab2"},
                o \in CliOutcomes, p \in CliOutcomes}
CliNext == Run \/ RunExcept \/ RunRetry
CliSpec == CliInit /\ [][CliNext]_vars

\* ================= async connect() overlapping connect() ====================
\* Two tasks call connect() on one disconnected instance; the second may start
\* while the first is suspended in open_unix_connection, in the sleep of the
\* retry loop or in _call.  The server accepts every connection and answers
\* session.create on the transport the request came on.

\* connect() up to the loop: `if self._reader is not None: return`
OverlapConnect(t) ==
  /\ AsyncIdle(t)
  /\ IF AsyncConnected
     THEN /\ ret' = [NoRets EXCEPT ![t] = Ret("connect", ReturnedEarly)]
          /\ UNCHANGED task
     ELSE /\ task' = [task EXCEPT ![t] = At("connect", "attempt", 0)]
          /\ ret' = [ret EXCEPT ![t] = NoRet]
  /\ UNCHANGED <<fixed, client, env>>

\* a reader task at the top of its loop, and one suspended in readline() on
\* transport c
ReaderReady == [st |-> "ready", on |-> 0]
ReaderBlocked(c) == [st |-> "blocked", on |-> c]
ReaderOver == [st |-> "done", on |-> 0]

\* open_unix_connection() returns a new transport or raises; on return the
\* instance's reader, writer and reader task are replaced, and session.create
\* is written to the new transport if no session id is stored yet
OverlapConnectOpened(t, endpoint) ==
  /\ kind = "async" /\ task[t].op = "connect" /\ task[t].pc = "opening"
  /\ IF endpoint # "up"
     THEN /\ AsyncAttemptFailed(t, "refused")
          /\ UNCHANGED <<next_id, reader, writer, read_task, pending, fut, conns>>
     ELSE LET c == Len(conns.stream) + 1
              opened == [conns EXCEPT !.ref = c, !.task = c,
                                      !.stream = Append(conns.stream, <<>>),
                                      !.got = Append(conns.got, {}),
                                      !.rd = Append(conns.rd, ReaderReady)]
          IN /\ reader' = "open" /\ writer' = "open"
             /\ read_task' = "running"
             /\ IF WantsSession
                THEN /\ next_id < MaxId
                     /\ next_id' = NextId(next_id)
                     /\ pending' = pending \cup {NextId(next_id)}
                     /\ fut' = [fut EXCEPT ![NextId(next_id)] = FutWaiting]
                     /\ conns' = [opened EXCEPT !.got[c] = {NextId(next_id)}]
                     /\ task' = [task EXCEPT ![t] = At("connect", "await", NextId(next_id))]
                     /\ UNCHANGED ret
                ELSE /\ conns' = opened
                     /\ task' = [task EXCEPT ![t] = Idle]
                     /\ ret' = [NoRets EXCEPT ![t] = Ret("connect", Returned)]
                     /\ UNCHANGED <<next_id, pending, fut>>
  /\ UNCHANGED <<kind, on_event, hin, hout, cli, auto_session, session_id, owned_tabs,
                 syncOnly, env>>

\* the server answers a session.create it has on transport c with a new session
OverlapServerRespond(c) ==
  /\ c \in DOMAIN conns.got
  /\ \E i \in conns.got[c] :
       LET sid == Cardinality(conns.sessions) + 1 IN
       conns' = [conns EXCEPT !.got[c] = @ \ {i},
                              !.stream[c] = Append(@, ResultLine(i, sid)),
                              !.sessions = @ \cup {[sid |-> sid, on |-> c]}]
  /\ UNCHANGED <<kind, on_event, hin, hout, cli, client, task, ret, env>>

\* the `finally` of reader task k
OverlapReaderFinally(k, rest) ==
  /\ fut' = FailPending(pending, fut, "lost")
  /\ pending' = {}
  /\ read_task' = IF k = conns.task THEN "done" ELSE read_task
  /\ conns' = [rest EXCEPT !.rd[k] = ReaderOver]

\* Reader task k runs.  At the top of its loop it calls readline() on what
\* self._reader is at that moment: a buffered line is returned at once; with
\* nothing buffered it suspends, unless another task is suspended on the same
\* StreamReader already, which makes readline() raise RuntimeError.  Suspended,
\* it resumes with the next line of its transport.  The line read is routed
\* as in _read_loop.
OverlapReaderStep(k) ==
  /\ kind = "async"
  /\ k \in DOMAIN conns.rd /\ conns.rd[k].st # "done"
  /\ LET c == IF conns.rd[k].st = "ready" THEN conns.ref ELSE conns.rd[k].on IN
     IF conns.stream[c] # <<>>
     THEN LET l == Head(conns.stream[c])
              rest == [conns EXCEPT !.stream[c] = Tail(@)] IN
          IF Known(l)
          THEN IF fut[Waiter(l)].st = "waiting"
               THEN /\ fut' = [fut EXCEPT ![Waiter(l)] = FutResult(l)]
                    /\ conns' = [rest EXCEPT !.rd[k] = ReaderReady]
                    /\ UNCHANGED <<pending, read_task>>
               ELSE OverlapReaderFinally(k, rest)
          ELSE /\ conns' = [rest EXCEPT !.rd[k] = ReaderReady]
               /\ UNCHANGED <<pending, fut, read_task>>
     ELSE /\ conns.rd[k].st = "ready"
          /\ IF \E j \in DOMAIN conns.rd : j # k /\ conns.rd[j] = ReaderBlocked(c)
             THEN OverlapReaderFinally(k, conns)
             ELSE /\ conns' = [conns EXCEPT !.rd[k] = ReaderBlocked(c)]
                  /\ UNCHANGED <<pending, fut, read_task>>
  /\ UNCHANGED <<kind, on_event, hin, hout, cli, auto_session, next_id, session_id,
                 owned_tabs, syncOnly, reader, writer, task, ret, env>>

OverlapInit ==
  /\ kind = "async"
  /\ auto_session \in BOOLEAN
  /\ Fresh
  /\ hin = NoIn /\ hout = NoOut
  /\ cli = NoCli
  /\ conns = NoConns
OverlapNext ==
  \/ \E t \in Tasks : OverlapConnect(t)
  \/ \E t \in Tasks, e \in Endpoints : AsyncConnectAttempt(t, e)
  \/ \E t \in Tasks, e \in Endpoints : OverlapConnectOpened(t, e)
  \/ \E t \in Tasks : AsyncConnectResume(t)
  \/ \E c \in 1..Cardinality(Tasks) : OverlapServerRespond(c)
  \/ \E k \in 1..Cardinality(Tasks) : OverlapReaderStep(k)
OverlapSpec == OverlapInit /\ [][OverlapNext]_vars

TypeOK ==
  /\ kind \in {"sync", "async"}
  /\ next_id \in 0..MaxId
  /\ pending \subseteq Ids
  /\ read_task \in {None, "running", "sink", "cancelling", "done"}
  /\ link \in {"none", "open", "half", "closed", "reset", "shut"}


\* The event loop runs every task that can run, a blocked read returns once
\* the stream has something for it, and a sleeping connect() wakes up.  The
\* server owes nothing: it may stay silent for ever.
Fairness ==
  /\ \A t \in Tasks :
       /\ WF_vars(SyncRead(t))
       /\ WF_vars(SyncWriteFailed(t))
       /\ WF_vars(\E e \in Endpoints : SyncConnectAttempt(t, e))
       /\ WF_vars(AsyncCallResume(t))
       /\ WF_vars(AsyncTabCreateResume(t))
       /\ WF_vars(AsyncTabCloseResume(t))
       /\ WF_vars(AsyncSessionDestroyResume(t))
       /\ WF_vars(AsyncBatchResume(t))
       /\ WF_vars(\E e \in Endpoints : AsyncConnectAttempt(t, e))
       /\ WF_vars(\E e \in Endpoints : AsyncConnectOpened(t, e))
       /\ WF_vars(AsyncConnectResume(t))
       /\ WF_vars(AsyncCloseResume(t))
       /\ WF_vars(AsyncCloseCancelled(t))
       /\ WF_vars(AsyncCloseClosed(t))
  /\ WF_vars(ReaderStep) /\ WF_vars(ReaderEOF)
  /\ WF_vars(ReaderError) /\ WF_vars(ReaderCancelled)

FairSpec == Spec /\ Fairness
\* The callback is user code: nothing obliges it to return.
FairRouterSpec == RouterSpec /\ Fairness

\* ================================ claims =================================
\* a caller suspended in _call on a future nobody has resolved yet
CallOps == {"call", "tab_create", "tab_close", "session_destroy", "batch"}
Suspended(t) ==
  /\ task[t].op \in CallOps
  /\ task[t].pc = "await"
  /\ fut[task[t].req].st = "waiting"

\* the instance holds no transport / holds one
Disconnected == IF kind = "sync" THEN sock = None \/ file = None ELSE writer = None
AlreadyConnected == IF kind = "sync" THEN sock # None ELSE reader # None

\* C1: in the asynchronous client a future is only ever resolved with the
\* response that carries its own id, and a call that ends through a response
\* (result or server error) took the response whose id is the id it sent,
\* whatever the order of responses and notifications on the stream.
C1_OwnResponse ==
  kind = "async" =>
    /\ \A i \in Ids : fut[i].st = "result" => fut[i].msg.id = i
    /\ \A t \in Tasks :
         ret[t].kind \in {"result", "AslanBrowserError"} => ret[t].rid = ret[t].req

\* two calls in flight, a notification on the stream, the later request
\* answered and returned first while the earlier one still waits
C1_Witness ==
  /\ kind = "async"
  /\ \E k \in DOMAIN inbox : inbox[k].t = "event"
  /\ \E t, u \in Tasks :
       /\ Suspended(t)
       /\ ret[u].kind = "result"
       /\ ret[u].req > task[t].req
       /\ ret[u].rid = ret[u].req

\* C2: in the asynchronous client, once close() has been invoked no call that
\* was pending stays suspended for ever: every such call eventually ends (the
\* claim adds: by raising a connection error).
C2_CloseUnblocksPending ==
  \A t \in Tasks :
    (kind = "async" /\ Suspended(t) /\ \E u \in Tasks : task[u].op = "close")
      ~> ~Suspended(t)

\* C3: when the reader of the asynchronous client stops (end of stream, read
\* error), every call suspended on an unresolved future gets the
\* "Connection lost." error in that same step and the pending map is empty.
C3_ReaderStopFailsPending ==
  [][ (kind = "async" /\ read_task = "running" /\ read_task' = "done") =>
        /\ pending' = {}
        /\ \A t \in Tasks :
             Suspended(t) => fut'[task[t].req] = FutExc("lost") ]_vars

\* the stream ended under a suspended call, which then raised "Connection lost."
C3_Witness ==
  /\ kind = "async" /\ read_task = "done"
  /\ link \in {"half", "closed", "reset"}
  /\ \A u \in Tasks : task[u].op # "close"
  /\ \E t \in Tasks :
       /\ ret[t].kind = "ConnectionError" /\ ret[t].msg = ConnLostMsg
       /\ ret[t].req > 0

\* C4: after the reader of the asynchronous client has stopped on end of
\* stream or a read error, and before any close(), no _call registers a
\* waiter: the pending map stays empty and no caller waits on a new future.
C4_NoSendAfterReaderStop ==
  (kind = "async" /\ read_task = "done" /\ \A u \in Tasks : task[u].op # "close")
    => /\ pending = {}
       /\ \A t \in Tasks : ~Suspended(t)

\* C5: the request ids written by an instance are strictly increasing (hence
\* unique); the counter moves only by +1, exactly when _call goes on to send, and
\* the id written is the new counter value -- never reset, also across
\* close() and reconnect, in both clients.
C5_IdsStrictlyIncrease ==
  [][ /\ next_id' \in {next_id, next_id + 1}
      /\ \A i, j \in 1..Len(wire') : i < j => wire'[i] < wire'[j]
      /\ wire' # wire => (wire' = Append(wire, next_id') /\ next_id' = next_id + 1) ]_vars

\* three requests written, the connection having been closed and reopened
\* since the first one
C5_Witness ==
  /\ Len(wire) >= 3
  /\ link = "open"
  /\ \E t \in Tasks : ret[t].op = "connect" /\ ret[t].kind = "ok" /\ task[t].op = "idle"
  /\ \A q \in todo : q.id > 1
  /\ \E q \in todo : q.method = "session.create" \/ ~auto_session

\* C6: when _call (reached through _call itself or tab_create) takes a
\* response that is an error envelope, it raises AslanBrowserError with the
\* envelope's code and message unchanged; it neither returns it nor drops it.
C6_ErrorEnvelopeRaised ==
  [][ \A t \in Tasks :
        LET l == IF kind = "sync" THEN Head(inbox) ELSE fut[task[t].req].msg
            taken == IF kind = "sync"
                     THEN /\ task[t].pc = "read" /\ inbox # <<>>
                          /\ Head(inbox).id = task[t].req
                          /\ inbox' = Tail(inbox)
                          /\ task'[t] # task[t]
                     ELSE /\ task[t].pc = "await"
                          /\ fut[task[t].req].st = "result"
                          /\ task'[t] # task[t]
        IN (task[t].op \in CallOps /\ taken /\ l.t = "error") =>
             /\ ret'[t].kind = "AslanBrowserError"
             /\ ret'[t].code = l.code
             /\ ret'[t].msg = l.message
             /\ [code |-> ret'[t].code, message |-> ret'[t].msg] \in ErrorEnvelopes ]_vars

\* a call ended with the server's -32000 "Tab not found"
C6_Witness ==
  \E t \in Tasks :
    /\ ret[t].kind = "AslanBrowserError"
    /\ ret[t].code = -32000 /\ ret[t].msg = "Tab not found"
    /\ ret[t].rid = ret[t].req

\* C7: on a client that is not connected, a caller's step never gets past the
\* guard of _call: it does not enter the send/wait part, and when it raises the
\* "Not connected" ConnectionError the id counter, the wire, the server's
\* inbox and the pending map are what they were.
C7_NotConnectedNoEffect ==
  [][ \A t \in Tasks :
        (Disconnected /\ task[t].op = "idle") =>
          /\ task'[t].op \notin CallOps
          /\ \A o \in CallOps :
               (ret'[t] # ret[t] /\ ret'[t].op = o) =>
                  /\ ret'[t] = Ret(o, Exc("ConnectionError", NotConnectedMsg, 0))
                  /\ UNCHANGED <<next_id, wire, todo, pending, fut, task>> ]_vars

\* a call rejected after close(): the instance had sent requests before
C7_Witness ==
  /\ Disconnected /\ next_id > 0
  /\ \E t \in Tasks :
       /\ ret[t].op = "call"
       /\ ret[t].kind = "ConnectionError" /\ ret[t].msg = NotConnectedMsg

\* C8: close() on a client without a transport (never connected, or closed
\* before) sends nothing and changes nothing: no transport, no reader,
\* session_id None, owned_tabs empty, no waiters, before and after.
C8_CloseIdempotent ==
  [][ (/\ Disconnected
       /\ UNCHANGED task
       /\ \E t \in Tasks : task[t].op = "idle" /\ ret' = [NoRets EXCEPT ![t] = Ret("close", Returned)])
      => /\ UNCHANGED <<client, wire, todo, link>>
         /\ session_id = NoSession /\ owned_tabs = <<>> /\ pending = {}
         /\ read_task = None ]_vars

\* C9: connect() on a client that already holds a transport returns at once:
\* the caller never enters the retry loop and nothing of the client or of the
\* connection changes.
C9_ConnectNoOp ==
  [][ \A t \in Tasks :
        (AlreadyConnected /\ task[t].op = "idle") =>
          /\ task'[t].op # "connect"
          /\ (ret'[t] # ret[t] /\ ret'[t].op = "connect") =>
                /\ ret'[t] = Ret("connect", ReturnedEarly)
                /\ UNCHANGED <<client, env, task>> ]_vars

\* connect() returned at once on an instance that holds a session
C9_Witness ==
  /\ AlreadyConnected /\ session_id # NoSession
  /\ \E t \in Tasks : ret[t] = Ret("connect", ReturnedEarly)

\* the final ConnectionError names the socket path
NamesSocketPath(m) == m = FailMissingMsg

\* C10: when connect() raises its ConnectionError it has made exactly
\* len(_RETRY_DELAYS) = 3 attempts, all of them failed, the message names the
\* socket path, and the client holds no transport.
C10_ConnectRetryBudget ==
  [][ \A t \in Tasks :
        (ret'[t] # ret[t] /\ ret'[t].op = "connect" /\ ret'[t].kind = "ConnectionError") =>
          /\ task[t].n + 1 = Len(RETRY_DELAYS)
          /\ task'[t].n = Len(RETRY_DELAYS)
          /\ NamesSocketPath(ret'[t].msg)
          /\ Disconnected' ]_vars

\* the step in which caller t's _call takes the response to its request, and
\* that response
Taken(t) ==
  /\ task'[t] # task[t]
  /\ IF kind = "sync"
     THEN task[t].pc = "read" /\ inbox # <<>> /\ Head(inbox).id = task[t].req
     ELSE task[t].pc = "await" /\ fut[task[t].req].st = "result"
TakenLine(t) == IF kind = "sync" THEN Head(inbox) ELSE fut[task[t].req].msg

\* the request lines a step hands to the server
Sent == todo' \ todo

\* C11: a connect() that opens the transport sends exactly one
\* session.create when auto_session is on and no session is held, and none
\* otherwise; no other step sends session.create; connect() stores the
\* sessionId of the answer; session_id only changes from None to the id
\* connect() got, or back to None, and is held only under auto_session.
C11_OneAutoSession ==
  [][ LET opens == link # "open" /\ link' = "open"
          created == {q \in Sent : q.method = "session.create"}
      IN /\ (opens /\ auto_session /\ session_id = NoSession) =>
               /\ Cardinality(created) = 1
               /\ Cardinality(Sent) = 1
               /\ \A q \in created : wire' = Append(wire, q.id)
         /\ ~(opens /\ auto_session /\ session_id = NoSession) => created = {}
         /\ \A t \in Tasks :
              (task[t].op = "connect" /\ Taken(t) /\ TakenLine(t).t = "result") =>
                 /\ session_id' = TakenLine(t).val
                 /\ session_id' # NoSession
         /\ session_id' # session_id =>
              \/ session_id' = NoSession
              \/ /\ session_id = NoSession
                 /\ \E t \in Tasks : task[t].op = "connect" /\ Taken(t)
         /\ session_id' # NoSession => auto_session' ]_vars

\* a second connect(), after a close(), created and stored a second session
C11_Witness ==
  /\ session_id > 1 /\ auto_session /\ ~Disconnected
  /\ \E t \in Tasks : ret[t] = Ret("connect", Returned)

\* C12: when the server rejects connect()'s session.create, connect() returns
\* normally with the transport kept, session_id None and auto_session off;
\* and once auto_session is off it stays off, no session.create is sent, and
\* every tab.create carries only the caller's explicit sessionId, if any.
C12_SessionCreateRejected ==
  [][ /\ \A t \in Tasks :
           (task[t].op = "connect" /\ Taken(t) /\ TakenLine(t).t = "error") =>
              /\ ret'[t] = Ret("connect", Returned)
              /\ ~auto_session' /\ session_id' = NoSession
              /\ ~Disconnected' /\ link' = link
      /\ ~auto_session =>
           /\ ~auto_session'
           /\ \A q \in Sent :
                /\ q.method # "session.create"
                /\ q.method = "tab.create" => q.sid \in {NoSession, OtherSession} ]_vars

\* connect() returned normally although its session.create (request 1) was
\* rejected; the connection is alive and auto_session is off
C12_Witness ==
  /\ ~auto_session /\ session_id = NoSession
  /\ next_id = 1 /\ wire = <<1>> /\ link = "open" /\ ~Disconnected
  /\ kind = "async" => read_task = "running"
  /\ \E t \in Tasks : ret[t] = Ret("connect", Returned)

\* C13: tab_create(session_id = s) on a connected client sends one
\* tab.create whose sessionId is s when s is given, the held auto-session id
\* when it is not, and none when there is neither; when the call succeeds
\* the returned tab id is appended to owned_tabs and returned.
C13_TabCreateSession ==
  [][ /\ \A t \in Tasks : \A s \in Sessions :
           ( /\ SyncTabCreate(t, s) \/ AsyncTabCreate(t, s)
             /\ ~Disconnected /\ Writable ) =>
              Sent = {Request(next_id', "tab.create",
                              IF s # NoSession THEN s ELSE session_id)}
      /\ \A t \in Tasks :
           (task[t].op = "tab_create" /\ Taken(t) /\ TakenLine(t).t = "result") =>
              /\ owned_tabs' = Append(owned_tabs, TakenLine(t).val)
              /\ ret'[t].kind = "result" /\ ret'[t].val = TakenLine(t).val ]_vars

\* two tabs made by tab_create are open and owned: one tagged with the held
\* auto-session, one with the session the caller named
C13_Witness ==
  /\ session_id # NoSession
  /\ \E x, y \in tabs :
       /\ x.sid = session_id /\ y.sid = OtherSession
       /\ {x.id, y.id} \subseteq Range(owned_tabs)
  /\ \E t \in Tasks : ret[t].op = "tab_create" /\ ret[t].kind = "result"

\* a step of close()'s teardown: the reader task is cancelled or dropped, the
\* transport is closed or released
TeardownStep ==
  IF kind = "sync"
  THEN sock # None /\ sock' = None
  ELSE \/ read_task = "running" /\ read_task' = "cancelling"
       \/ read_task # None /\ read_task' = None
       \/ writer # None /\ link' # link /\ link' \in {"shut", "none"}
       \/ writer # None /\ writer' = None

\* C14: a close() invoked on a connected client that holds an auto-session
\* writes a session.destroy for that session as its first step, and teardown
\* (stopping the reader, closing the transport) only begins from a close()
\* that has done so.
C14_DestroyBeforeTeardown ==
  [][ /\ \A t \in Tasks :
           ( /\ task[t].op = "idle" /\ task'[t].op = "close"
             /\ session_id # NoSession /\ auto_session /\ ~Disconnected ) =>
              /\ ~TeardownStep
              /\ task'[t].req = next_id' /\ next_id' = next_id + 1
              /\ Writable => Sent = {Request(next_id', "session.destroy", session_id)}
      /\ (TeardownStep /\ session_id # NoSession /\ auto_session /\ ~Disconnected) =>
           \E t \in Tasks :
              /\ task[t].op = "close" /\ task[t].req # 0
              /\ task[t].pc \in {"read", "raise", "await", "drain"}
              /\ task[t].pc \in {"read", "await"} => task[t].req \in Range(wire) ]_vars

\* close() returned after the session it held was created and its
\* session.destroy was the last request written
C14_Witness ==
  /\ auto_session /\ session_id = NoSession /\ Disconnected
  /\ next_id >= 2 /\ wire # <<>> /\ wire[Len(wire)] = next_id
  /\ \E t \in Tasks : ret[t] = Ret("close", Returned)

\* C15: a close() whose session.destroy cannot succeed because the
\* connection is no longer usable still completes: it returns normally with
\* the transport released, the reader stopped and session_id None.
C15_CloseCompletesOnFailure ==
  \A t \in Tasks :
    (task[t].op = "close" /\ link \in {"half", "closed", "reset"})
      ~> ( /\ ret[t] = Ret("close", Returned)
           /\ Disconnected /\ session_id = NoSession
           /\ kind = "async" => read_task = None )

\* C16: when close() gets the successful answer to the session.destroy of its
\* auto-session, no tab made by this client's tab_create is left open on the
\* server (every tab of the server was made by this client's tab_create).
C16_NoTabSurvivesClose ==
  [][ \A t \in Tasks :
        (task[t].op = "close" /\ Taken(t) /\ TakenLine(t).t = "result") =>
           tabs' = {} ]_vars

\* C17: whenever the client is connected and no operation is in progress,
\* every id in owned_tabs is a tab that is open on the server.
C17_OwnedTabsOpen ==
  (link = "open" /\ ~Disconnected /\ \A t \in Tasks : task[t].op = "idle")
    => Range(owned_tabs) \subseteq ServerOpen

\* C18: owned_tabs gains an id only when a tab_create succeeds whose tab is
\* tagged with the auto-session this client holds, and loses ids only in
\* tab_close, session_destroy and close().
C18_OwnedTabsMutators ==
  [][ /\ Range(owned_tabs') \ Range(owned_tabs) # {} =>
           /\ session_id # NoSession /\ auto_session
           /\ \E t \in Tasks :
                /\ task[t].op = "tab_create" /\ Taken(t) /\ TakenLine(t).t = "result"
                /\ owned_tabs' = Append(owned_tabs, TakenLine(t).val)
                /\ \E x \in tabs : x.id = TakenLine(t).val /\ x.sid = session_id
      /\ Range(owned_tabs) \ Range(owned_tabs') # {} =>
           \E t \in Tasks :
              \/ task[t].op \in {"tab_close", "session_destroy", "close"}
              \/ task[t].op = "idle" /\ ret'[t] = Ret("close", Returned) ]_vars

\* C19: a tab_close(x) that the server accepts removes x from owned_tabs when
\* it is there and leaves the other entries, and their order, alone; when x
\* is not owned the list is unchanged and the call returns normally; when
\* the server rejects it the error is raised and the list is unchanged.
C19_TabCloseRemoves ==
  [][ \A t \in Tasks :
        (task[t].op = "tab_close" /\ Taken(t)) =>
           LET x == task[t].arg IN
           IF TakenLine(t).t = "result"
           THEN /\ owned_tabs' = SelectSeq(owned_tabs, LAMBDA y : y # x)
                /\ ret'[t].op = "tab_close" /\ ret'[t].kind = "result"
           ELSE /\ owned_tabs' = owned_tabs
                /\ ret'[t].op = "tab_close" /\ ret'[t].kind = "AslanBrowserError"
                /\ ret'[t].code = TakenLine(t).code ]_vars

\* two tabs are owned and the server's acceptance of tab_close for one of
\* them is the response the caller takes next
C19_Witness ==
  \E t \in Tasks :
    /\ task[t].op = "tab_close" /\ task[t].arg \in Range(owned_tabs)
    /\ Len(owned_tabs) = 2
    /\ IF kind = "sync"
       THEN task[t].pc = "read" /\ inbox # <<>> /\ Head(inbox).id = task[t].req
       ELSE task[t].pc = "await" /\ fut[task[t].req].st = "result"
    /\ TakenLine(t).t = "result"

\* C20: when close() gets the successful answer to session.destroy, the ids it
\* removes from owned_tabs are the owned ids that closedTabs reports closed.
C20_CloseReconciles ==
  [][ \A t \in Tasks :
        (task[t].op = "close" /\ Taken(t) /\ TakenLine(t).t = "result") =>
           Range(owned_tabs) \ Range(owned_tabs')
             = Range(owned_tabs) \cap TakenLine(t).closed ]_vars

\* C23: the answer to a session.destroy lists exactly the tabs that were
\* open under that session, and the server has none of them left;
\* session_destroy() returns that list as it is, and no tab it returned is
\* open on the server afterwards (a tab_list shows the open tabs).
C23_SessionDestroyClosesItsTabs ==
  [][ /\ \A q \in todo \ todo' :
           ( /\ q.method = "session.destroy" /\ link' = "open"
             /\ Len(inbox') = Len(inbox) + 1
             /\ inbox'[Len(inbox')].t = "result" ) =>
              /\ inbox'[Len(inbox')].closed = {x.id : x \in {y \in tabs : y.sid = q.sid}}
              /\ \A x \in tabs' : x.sid # q.sid
      /\ \A t \in Tasks :
           (task[t].op = "session_destroy" /\ Taken(t) /\ TakenLine(t).t = "result") =>
              /\ ret'[t].kind = "result"
              /\ ret'[t].closed = TakenLine(t).closed
      /\ \A t \in Tasks :
           (ret'[t].op = "session_destroy" /\ ret'[t].kind = "result") =>
              ret'[t].closed \cap {x.id : x \in tabs'} = {} ]_vars

\* session_destroy returned the two tabs that were created under the session
C23_Witness ==
  \E t \in Tasks :
    /\ ret[t].op = "session_destroy" /\ ret[t].kind = "result"
    /\ Cardinality(ret[t].closed) = 2
    /\ ret[t].closed \cap ServerOpen = {}

\* a sub-request that the server, holding the tabs `open`, rejects
Fails(r, open) == r.method \in {"batch", ""} \/ r.tab \notin open

\* C21: batch(requests) returns a list as long as requests whose entry i is
\* an {error} when sub-request i fails and the {result} of sub-request i's
\* tab otherwise, whatever the other sub-requests are.
C21_BatchPositional ==
  (hin.helper = "batch" /\ hout.done) =>
    /\ Len(hout.list) = Len(hin.reqs)
    /\ \A i \in DOMAIN hin.reqs :
         IF Fails(hin.reqs[i], hin.open)
         THEN hout.list[i].t = "error"
         ELSE hout.list[i].t = "result" /\ hout.list[i].of = hin.reqs[i].tab

\* batch([A, B]) with A failing and B succeeding returned [{error}, {result}]
C21_Witness ==
  /\ hin.helper = "batch" /\ hout.done /\ Len(hin.reqs) = 2
  /\ hin.reqs[1].method = "getTitle" /\ hin.reqs[1].tab \notin hin.open
  /\ hout.list[1].t = "error" /\ hout.list[2].t = "result"

\* C22: an item of a batch whose method is "batch" gets an {error} at its own
\* position; it adds or removes no entry, and every other item has the entry
\* it has without it: failing or succeeding on its own tab and method.
C22_NestedBatchRejected ==
  (hin.helper = "batch" /\ hout.done) =>
    /\ Len(hout.list) = Len(hin.reqs)
    /\ \A i \in DOMAIN hin.reqs :
         IF hin.reqs[i].method = "batch"
         THEN hout.list[i].t = "error" /\ hout.list[i].of = 0
         ELSE hout.list[i].t = "result" <=>
                (hin.reqs[i].method # "" /\ hin.reqs[i].tab \in hin.open)

\* batch([nested batch, B]) returned [{error}, {result of B}]
C22_Witness ==
  /\ hin.helper = "batch" /\ hout.done /\ Len(hin.reqs) = 2
  /\ hin.reqs[1].method = "batch" /\ hin.reqs[2].method = "getTitle"
  /\ hout.list[1].t = "error"
  /\ hout.list[2].t = "result" /\ hout.list[2].of = hin.reqs[2].tab

\* the fan-out helpers and the kind of value each stores for a tab that
\* answered
FanOut == {"parallel_get_trees", "parallel_navigate", "parallel_screenshots"}
ValueKind(h) ==
  CASE h = "parallel_get_trees" -> "tree"
    [] h = "parallel_navigate" -> "page"
    [] OTHER -> "jpeg"

\* C24 as stated: a fan-out helper returns a map in which every requested tab
\* whose sub-call failed has an error value and every tab whose sub-call
\* succeeded has its own result.
C24_FailedTabsHaveErrorValue ==
  (hin.helper \in FanOut /\ hout.done) =>
    \A k \in DOMAIN hin.ids :
      LET x == hin.ids[k] IN
      /\ x \in DOMAIN hout.map
      /\ IF x \in hin.open
         THEN hout.map[x] = Value(ValueKind(hin.helper), x)
         ELSE hout.map[x].kind = "error"

\* C24 as the helpers do it: each returns a map in which every tab whose
\* sub-call succeeded has its own result; a tab whose sub-call failed has the
\* server's error object in parallel_navigate, the empty list in
\* parallel_get_trees, and no entry in parallel_screenshots; the map has no
\* other keys.
C24_FailedTabsPerHelper ==
  (hin.helper \in FanOut /\ hout.done) =>
    /\ DOMAIN hout.map \subseteq Range(hin.ids)
    /\ \A k \in DOMAIN hin.ids :
         LET x == hin.ids[k] IN
         IF x \in hin.open
         THEN x \in DOMAIN hout.map /\ hout.map[x] = Value(ValueKind(hin.helper), x)
         ELSE CASE hin.helper = "parallel_navigate" ->
                     x \in DOMAIN hout.map /\ hout.map[x].kind = "error"
                                           /\ hout.map[x].code # 0
                [] hin.helper = "parallel_get_trees" ->
                     x \in DOMAIN hout.map /\ hout.map[x] = EmptyList
                [] OTHER -> x \notin DOMAIN hout.map

\* parallel_navigate over a tab the server has and one it has not returned
\* the page of the first and the error of the second
C24_Witness ==
  /\ hin.helper = "parallel_navigate" /\ hout.done /\ Len(hin.ids) = 2
  /\ hin.ids[1] \in hin.open /\ hin.ids[2] \notin hin.open
  /\ hout.map[hin.ids[1]].kind = "page" /\ hout.map[hin.ids[2]].kind = "error"

\* ---- the reader and its event sink -----------------------------------------
\* the callback is over: the reader leaves it, and not because close()
\* cancelled it
SinkEnds == read_task = "sink" /\ read_task' \notin {"sink", "cancelling"}

\* C25: however the event sink ends, raising included, the reader keeps
\* running: no future is failed or resolved by it, no request leaves the
\* pending map, and the lines not yet read stay on the stream for the reader
\* to deliver.
C25_SinkExceptionContained ==
  [][ SinkEnds =>
        /\ read_task' = "running"
        /\ fut' = fut /\ pending' = pending
        /\ inbox' = inbox ]_vars

\* the sink runs while a caller waits and its response is next on the stream
C25_Witness ==
  /\ read_task = "sink"
  /\ \E i \in pending : /\ fut[i].st = "waiting"
                        /\ inbox # <<>> /\ Head(inbox).id = i

\* the response to request i is on the stream, not yet read
Arrived(i) == \E k \in DOMAIN inbox : inbox[k].id = i /\ inbox[k].t \in {"result", "error"}

\* C26: a response that has arrived while the event sink is still running
\* is delivered: the future of its request does not stay unresolved, however
\* long the sink takes.
C26_SinkDoesNotBlockReader ==
  \A i \in Ids :
    (read_task = "sink" /\ i \in pending /\ fut[i].st = "waiting" /\ Arrived(i))
      ~> (fut[i].st # "waiting")

\* the client takes the first unread line off the stream: the reader task
\* (async) or the caller blocked in readline() (sync)
ReadsLine ==
  /\ inbox # <<>> /\ Len(inbox') < Len(inbox) /\ link' = link
  /\ IF kind = "async" THEN read_task = "running" ELSE \E t \in Tasks : task[t].pc = "read"

\* C27: reading a line that is not JSON is fatal for the connection: in the
\* async client the reader ends and every call still waiting fails with the
\* connection-lost error; in the sync client the call that read the line
\* ends with ConnectionError.
C27_MalformedLineFatal ==
  [][ (ReadsLine /\ ~IsJson(Head(inbox))) =>
        IF kind = "async"
        THEN /\ read_task' = "done"
             /\ \A i \in pending : fut[i].st = "waiting" => fut'[i].st = "lost"
        ELSE \E t \in Tasks : /\ task[t].pc = "read"
                              /\ ret'[t].kind = "ConnectionError" ]_vars

\* a response line: it has an id and no method
IsResponse(l) == l.t \in {"result", "error"} /\ HasId(l)
\* no request waits for the id of line l: it is not in the pending map (async),
\* it is not the id the blocked caller sent (sync)
Unmatched(l) ==
  IF kind = "async" THEN l.id \notin pending
  ELSE \A t \in Tasks : task[t].pc = "read" => task[t].req # l.id

\* C28: when the client reads a response whose id no pending request has,
\* the line is dropped and nothing else happens: no future changes, no caller
\* returns or raises, the pending map is the same, and the reader (or the
\* caller in readline) goes on with the rest of the stream.
C28_UnknownIdDiscarded ==
  [][ (ReadsLine /\ IsResponse(Head(inbox)) /\ Unmatched(Head(inbox))) =>
        /\ inbox' = Tail(inbox)
        /\ fut' = fut /\ pending' = pending
        /\ task' = task /\ ret' = ret
        /\ read_task' = read_task /\ sock' = sock /\ writer' = writer ]_vars

\* the reader is about to read a response nobody waits for, ahead of the
\* response of a call that is waiting
C28_Witness ==
  /\ kind = "async" /\ read_task = "running" /\ link = "open"
  /\ Len(inbox) = 2
  /\ IsResponse(inbox[1]) /\ Unmatched(inbox[1])
  /\ IsResponse(inbox[2]) /\ inbox[2].id \in pending /\ fut[inbox[2].id].st = "waiting"

\* the reader hands the line it read to the event sink
Forwarded == read_task = "running" /\ read_task' = "sink"

\* C29: with a sink registered, the reader forwards a JSON line it reads
\* exactly when the line has no id: every such line without an id goes to
\* the sink and none with an id does, pending or not.
C29_EventIffNoId ==
  [][ (kind = "async" /\ on_event /\ ReadsLine /\ IsJson(Head(inbox))) =>
        (Forwarded <=> ~HasId(Head(inbox))) ]_vars

\* ---- what ends a pending call ------------------------------------------------
\* the reader routes the response that carries id i to the future of i
OwnResponse(i) ==
  /\ read_task = "running" /\ inbox # <<>> /\ Head(inbox).id = i
  /\ fut'[i] = FutResult(Head(inbox))
\* the future of i was failed with error k, or dropped because its caller
\* never came to await it (the write had failed)
Failed(i, k) == fut'[i].st = k \/ (~Awaited(i) /\ fut'[i] = FutNone)
\* the reader ends on a stream that is over or broken and fails what waits
ConnectionLost(i) ==
  /\ read_task = "running" /\ read_task' = "done" /\ link # "open"
  /\ Failed(i, "lost")
\* close() is under way: it cancels the reader, whose finally fails what
\* waits, or fails it itself
ByClose(i) ==
  /\ \E t \in Tasks : task[t].op = "close"
  /\ \/ read_task = "cancelling" /\ read_task' = "done" /\ Failed(i, "lost")
     \/ Failed(i, "closed")

\* C30: a call that waits for its response ends only on the response with its
\* own id, on the loss of the connection, or on close().  Async: a waiting
\* future is completed only in one of these three ways, and the caller leaves
\* `await future` only once the future is completed.  Sync: the caller
\* leaves readline() only with the line that has its id or on a stream that
\* is over or broken.  No other step, and so no passing of time, ends a call.
C30_NoImplicitTimeout ==
  [][ /\ \A i \in Ids :
           (fut[i].st = "waiting" /\ fut'[i].st # "waiting") =>
              OwnResponse(i) \/ ConnectionLost(i) \/ ByClose(i)
      /\ \A t \in Tasks :
           (kind = "async" /\ task[t].pc = "await" /\ task'[t].pc # "await") =>
              fut[task[t].req].st # "waiting"
      /\ \A t \in Tasks :
           (kind = "sync" /\ task[t].pc = "read" /\ task'[t].pc # "read") =>
              \/ inbox # <<>> /\ Head(inbox).id = task[t].req
              \/ link # "open" ]_vars

\* ---- the write path ----------------------------------------------------------
\* C31: in the async client every step writes at most one request line, the
\* line written carries the id just taken, and that id is larger than the id
\* of every line written before: with two callers in _call at once, the
\* lines reach the transport whole, one after the other, in increasing id
\* order.
C31_WritesInIdOrder ==
  [][ kind = "async" =>
        \/ wire' = wire
        \/ /\ wire' = Append(wire, next_id')
           /\ next_id' = next_id + 1
           /\ \A k \in DOMAIN wire : wire[k] < next_id'
           /\ \E q \in todo' \ todo : q.id = next_id' /\ todo' = todo \cup {q} ]_vars

\* both callers are suspended in _call, each with its line written
C31_Witness ==
  /\ kind = "async" /\ link = "open"
  /\ task["A"].pc = "await" /\ task["B"].pc = "await"
  /\ \E j, k \in DOMAIN wire : j < k /\ wire[j] = task["B"].req /\ wire[k] = task["A"].req

\* ---- the client without an auto-session ------------------------------------
\* a step of close(): it starts, goes on or returns
CloseStep ==
  \E t \in Tasks : /\ task[t].op = "close" \/ task'[t].op = "close" \/ ret'[t].op = "close"
                   /\ task'[t] # task[t] \/ ret'[t] # ret[t]

\* C32: while auto_session is off (it is never switched back on) session_id
\* is None and stays None; no session.create is sent; session.destroy is
\* sent by session_destroy() only, never by close(); a tab.create carries
\* the caller's sessionId argument or none; and no step of close() sends a
\* request or changes the server's open tabs.
C32_NoAutoSession ==
  [][ ~auto_session =>
        /\ ~auto_session'
        /\ session_id = NoSession /\ session_id' = NoSession
        /\ \A q \in Sent :
             /\ q.method # "session.create"
             /\ q.method = "session.destroy" =>
                  \E t \in Tasks : task'[t].req = q.id /\ task'[t].op = "session_destroy"
             /\ q.method = "tab.create" => q.sid \in Sessions
        /\ CloseStep => (Sent = {} /\ tabs' = tabs) ]_vars

\* the first request of the instance was a tab.create without a session (so
\* connect() sent no session.create); the client has closed and the tab is
\* still open on the server
C32_Witness ==
  /\ ~auto_session /\ Disconnected
  /\ ret[Owner].op = "close" /\ ret[Owner].kind = "ok"
  /\ [id |-> 1, sid |-> NoSession] \in tabs

\* ---- the read loop of the sync client --------------------------------------
\* C33: a sync _call blocked in readline() that reads a JSON line without an
\* id, or with an id other than the one it sent, drops the line and stays
\* blocked; it returns a result or raises the server's error only on the
\* line that has its id, and the outcome is that line's; when the stream
\* is over with nothing left to read it raises ConnectionError.
C33_SyncReadsOwnResponse ==
  [][ \A t \in Tasks :
        (/\ kind = "sync" /\ task[t].pc = "read" /\ link' = link
         /\ task'[t] # task[t] \/ Len(inbox') < Len(inbox)) =>
          /\ (inbox # <<>> /\ IsJson(Head(inbox)) /\ Head(inbox).id # task[t].req) =>
               (inbox' = Tail(inbox) /\ task' = task /\ ret' = ret)
          /\ (task'[t] # task[t] /\ ret'[t].kind \in {"result", "AslanBrowserError"}) =>
               /\ inbox # <<>> /\ Head(inbox).id = task[t].req
               /\ ret'[t] = Ret(task[t].op, Reply(task[t].req, Head(inbox)))
               /\ inbox' = Tail(inbox)
          /\ (inbox = <<>> /\ task'[t] # task[t]) =>
               (link \in {"half", "closed", "reset"} /\ ret'[t].kind = "ConnectionError") ]_vars

\* the caller is blocked in readline(); the next line is a response with
\* an older id, left in the stream, and its own response comes after it
C33_Witness ==
  \E t \in Tasks :
    /\ kind = "sync" /\ task[t].pc = "read" /\ Len(inbox) = 2
    /\ IsResponse(inbox[1]) /\ inbox[1].id < task[t].req
    /\ IsResponse(inbox[2]) /\ inbox[2].id = task[t].req

\* ---- the pending map -----------------------------------------------------------
\* task t is inside the _call that sent request i
InCall(t, i) == task[t].req = i /\ task[t].pc \in {"await", "drain"}

\* C34: in the async client an id is in the pending map only while the
\* _call that sent it has not returned or raised: every pending id belongs
\* to exactly one task that is still inside that _call.
C34_PendingOnlyDuringCall ==
  kind = "async" =>
    \A i \in pending : \E t \in Tasks : InCall(t, i) /\ \A u \in Tasks : InCall(u, i) => u = t

\* ---- session_destroy ---------------------------------------------------------
\* C35: when session_destroy() takes the answer to its request, a result
\* removes from owned_tabs exactly the ids of its closedTabs, the other ids
\* keeping their order, and is returned; an error is raised with the
\* server's code and owned_tabs stays as it was; in both cases session_id,
\* auto_session and the transport are untouched.
C35_SessionDestroyFrame ==
  [][ \A t \in Tasks :
        (task[t].op = "session_destroy" /\ Taken(t)) =>
          LET l == TakenLine(t)
              Kept(x) == x \notin l.closed IN
          /\ IF l.t = "error"
             THEN /\ ret'[t].kind = "AslanBrowserError" /\ ret'[t].code = l.code
                  /\ owned_tabs' = owned_tabs
             ELSE /\ ret'[t].kind = "result" /\ ret'[t].closed = l.closed
                  /\ owned_tabs' = SelectSeq(owned_tabs, Kept)
          /\ session_id' = session_id /\ auto_session' = auto_session
          /\ link' = link /\ sock' = sock /\ file' = file
          /\ reader' = reader /\ writer' = writer /\ read_task' = read_task ]_vars

\* session_destroy() is about to take an answer that lists the first of two
\* owned tabs
C35_Witness ==
  \E t \in Tasks :
    /\ task[t].op = "session_destroy" /\ Len(owned_tabs) = 2
    /\ IF kind = "sync"
       THEN task[t].pc = "read" /\ inbox # <<>> /\ Head(inbox).id = task[t].req
            /\ Head(inbox).closed = {owned_tabs[1]}
       ELSE task[t].pc = "await" /\ fut[task[t].req].st = "result"
            /\ fut[task[t].req].msg.closed = {owned_tabs[1]}

\* ---- fan-out: from positions back to tab ids ----------------------------------
\* the method a fan-out helper puts in its sub-requests
MethodOf(h) ==
  CASE h = "parallel_get_trees" -> "getAccessibilityTree"
    [] h = "parallel_navigate" -> "navigate"
    [] OTHER -> "screenshot"
\* what helper h stores for a batch response r
Derived(h, r) ==
  IF r.t = "result" THEN Value(ValueKind(h), r.of)
  ELSE IF h = "parallel_navigate" THEN ErrorObject(r.code) ELSE EmptyList

\* C36: for a list of distinct tab ids, the server answering the batch with
\* one response per sub-request in the order submitted, the value a
\* fan-out helper returns under tab id ids[k] is the one derived from the
\* response at position k; parallel_navigate and parallel_get_trees return
\* an entry for every id of the list, and no helper returns other keys.
C36_FanOutPositional ==
  (hin.helper \in FanOut /\ hout.done /\ Distinct(hin.ids)) =>
    LET rs == ServerBatch(SubRequests(MethodOf(hin.helper), hin.ids), hin.open).responses IN
    /\ Len(rs) = Len(hin.ids)
    /\ DOMAIN hout.map \subseteq Range(hin.ids)
    /\ \A k \in DOMAIN hin.ids :
         /\ hin.ids[k] \in DOMAIN hout.map => hout.map[hin.ids[k]] = Derived(hin.helper, rs[k])
         /\ hin.helper # "parallel_screenshots" => hin.ids[k] \in DOMAIN hout.map

\* parallel_get_trees over a tab the server does not have and one it has:
\* the empty list under the first id, the tree of the second under the second
C36_Witness ==
  /\ hin.helper = "parallel_get_trees" /\ hout.done
  /\ Len(hin.ids) = 2 /\ hin.ids[1] # hin.ids[2]
  /\ hin.ids[1] \notin hin.open /\ hin.ids[2] \in hin.open
  /\ hout.map[hin.ids[1]] = EmptyList /\ hout.map[hin.ids[2]] = Value("tree", hin.ids[2])

\* C37: once _run has finished, (a) a first failure "Tab not found" (-32000)
\* on a resolved target other than tab0 has stored tab0 as the current tab and
\* run the command a second time, against tab0, the exit code being 0 when the
\* second run succeeded and 1 otherwise; (b) the command has run at most
\* twice; (c) whenever the first run raised AslanBrowserError, _run returned an
\* exit code and no exception left it.
C37_RunRetriesOnce ==
  cli.pc = "done" =>
    /\ (TabNotFound(cli.first) /\ cli.ran[1] # "tab0") =>
         /\ cli.state = "tab0"
         /\ cli.ran = <<cli.ran[1], "tab0">>
         /\ cli.exit = IF cli.second.exc = "" THEN 0 ELSE 1
    /\ Len(cli.ran) <= 2
    /\ cli.first.exc = "AslanBrowserError" => cli.exit \in {0, 1} /\ cli.raised = ""

\* ---- repeated responses ------------------------------------------------------
\* line l answers a request whose future is completed already and whose
\* caller has not yet resumed to take its id out of the pending map
Repeated(l) == IsResponse(l) /\ l.id \in pending /\ fut[l.id].st # "waiting"

\* C38: in the async client, reading a second response for a request whose
\* waiter is already resolved changes nothing but the stream: the reader
\* keeps running, the pending map and every future stay as they are, so every
\* other pending call can still get its own response; and the reader never
\* ends by itself, failing the calls that wait with the connection-lost
\* error, while the transport is open.
C38_RepeatedResponseHarmless ==
  [][ kind = "async" =>
        /\ (ReadsLine /\ Repeated(Head(inbox))) =>
             /\ read_task' = "running"
             /\ inbox' = Tail(inbox)
             /\ fut' = fut /\ pending' = pending
        /\ (read_task = "running" /\ read_task' = "done") => link # "open" ]_vars

\* ---- overlapping connect()s --------------------------------------------------
\* no task is inside connect()
ConnectsOver == \A t \in Tasks : task[t].op = "idle"

\* C39: with connect() overlapping connect() on a disconnected async
\* instance, at most one transport is opened, at most one reader task is
\* started and at most one session is created on the server; every
\* transport opened is the one the instance's reader and writer refer to,
\* every reader task started is the instance's _read_task, and once the calls
\* are over every session the server made is the instance's _session_id.
C39_OverlappingConnectOpensOnce ==
  /\ Len(conns.stream) <= 1
  /\ Len(conns.rd) <= 1
  /\ Cardinality(conns.sessions) <= 1
  /\ \A c \in DOMAIN conns.stream : c = conns.ref
  /\ \A k \in DOMAIN conns.rd : k = conns.task
  /\ ConnectsOver => \A s \in conns.sessions : s.sid = session_id

\* C40: a close() that has sent the session.destroy of its auto-session
\* always comes to an end, whether or not the server ever answers: from the
\* moment it waits for the answer (in `await future`, or in readline() for the
\* synchronous client) it eventually reaches its teardown and returns.
C40_CloseTerminates ==
  \A t \in Tasks :
    (task[t].op = "close" /\ task[t].pc \in {"await", "read"})
      ~> (task[t].op # "close")

====
